---- MODULE Spec2Model ----
(***************************************************************************)
(* A model of the PulsePrint desktop MQTT service (src-tauri/src/mqtt.rs): *)
(* the printer registry, the per-printer connection tasks, the telemetry   *)
(* accumulator (deep_merge), the status classifier and the command         *)
(* dispatcher.                                                             *)
(***************************************************************************)
EXTENDS Integers, Sequences, FiniteSets, TLC

VARIABLES
    printer_states,       \* MqttService.printer_states: id -> Printer
    printer_mqtt_states,  \* MqttService.printer_mqtt_states: id -> JSON value
    printer_connections,  \* MqttService.printer_connections: id -> client (task index)
    command_queue,        \* the unbounded channel behind command_sender
    dispatcher,           \* the command handler task spawned by MqttService::new
    tasks,                \* the connection tasks spawned by add_printer
    caller,               \* the calling context of add/remove/send_command
    emitted,              \* per id: the events handed to app_handle.emit
    outcome,              \* per accepted command: what the dispatcher did with it
    msg_log,              \* per id: the telemetry updates applied to its entry
    budget                \* the calls and network events the environment may still make

vars == <<printer_states, printer_mqtt_states, printer_connections, command_queue,
          dispatcher, tasks, caller, emitted, outcome, msg_log, budget>>

(***************************************************************************)
(* Bounds of the model.                                                    *)
(***************************************************************************)
MaxEvents == 4
MaxTelemetryEvents == 4
MaxValueEvents == 2
MaxPairEvents == 4
MaxTwinEvents == 4
MaxConnectionEvents == 6
MaxCandidateEvents == 1

Ids == {"p1", "p2"}

(***************************************************************************)
(* Option<T>::None.                                                        *)
(***************************************************************************)
None == [t |-> "none"]

(***************************************************************************)
(* 64-bit integers.  A JSON integer is kept as its two 32-bit halves, each *)
(* as the signed value of its bits: the number is hi * 2^32 + (lo mod      *)
(* 2^32).  `lo` is therefore what `as i32` yields.                         *)
(***************************************************************************)
I32Max == 2147483647
I32Min == -I32Max - 1

I64(v) == [hi |-> IF v < 0 THEN -1 ELSE 0, lo |-> v]
Wide(h, l) == [hi |-> h, lo |-> l]

\* n > c, n < c, n = c for a constant 0 <= c <= I32Max
Gt(n, c) == n.hi > 0 \/ (n.hi = 0 /\ (n.lo < 0 \/ n.lo > c))
Lt(n, c) == n.hi < 0 \/ (n.hi = 0 /\ n.lo >= 0 /\ n.lo < c)
Eq(n, c) == n.hi = 0 /\ n.lo = c
Ge(n, c) == ~Lt(n, c)
Le(n, c) == ~Gt(n, c)

\* `x as i32` for an i64 x: the low 32 bits
AsI32(n) == n.lo

\* `x.round() as i32` for the f64 of an integer x: the cast saturates
RoundAsI32(n) ==
    IF n.hi > 0 \/ (n.hi = 0 /\ n.lo < 0) THEN I32Max
    ELSE IF n.hi < -1 \/ (n.hi = -1 /\ n.lo >= 0) THEN I32Min
    ELSE n.lo

(***************************************************************************)
(* serde_json::Value.                                                      *)
(***************************************************************************)
JNull == [t |-> "null"]
JInt(v) == [t |-> "int", n |-> I64(v)]
JWide(h, l) == [t |-> "int", n |-> Wide(h, l)]
JStr(s) == [t |-> "str", s |-> s]
JObj(m) == [t |-> "obj", m |-> m]
EmptyObject == JObj([k \in {} |-> JNull])

\* Value::get(key): None unless the value is an object holding the key
Get(v, key) == IF v.t = "obj" /\ key \in DOMAIN v.m THEN v.m[key] ELSE None
\* Value::as_i64 / as_f64 / as_str, None for every other kind of value
IsNum(v) == v.t = "int"
IsStr(v) == v.t = "str"
\* .and_then(|v| v.as_i64()).unwrap_or(0), also used for as_f64().unwrap_or(0.0)
NumOr0(v) == IF IsNum(v) THEN v.n ELSE I64(0)
\* .and_then(|v| v.as_str()).unwrap_or("")
StrOrEmpty(v) == IF IsStr(v) THEN v.s ELSE ""

(***************************************************************************)
(* deep_merge: the telemetry accumulator.                                  *)
(***************************************************************************)
Sentinels == {"", "Unknown", "undefined"}

\* the three retention rules: the `continue` branches of deep_merge
KeepSubtaskName(key, existing, value) ==
    /\ key = "subtask_name"
    /\ StrOrEmpty(value) = ""
    /\ IsStr(existing)
    /\ existing.s \notin Sentinels

\* a retention rule that also keeps an existing 0 or 100
KeepPercentInclusive(key, existing, value) ==
    /\ key = "mc_percent"
    /\ Eq(NumOr0(value), 0)
    /\ IsNum(existing)
    /\ Ge(existing.n, 0)
    /\ Le(existing.n, 100)

KeepPercent(key, existing, value) ==
    /\ key = "mc_percent"
    /\ Eq(NumOr0(value), 0)
    /\ IsNum(existing)
    /\ Gt(existing.n, 0)
    /\ Lt(existing.n, 100)

\* a merge that lets an incoming 0 overwrite a positive remaining time
OverwriteRemainingTime(key, existing, value) == FALSE

KeepRemainingTime(key, existing, value) ==
    /\ key = "mc_remaining_time"
    /\ Eq(NumOr0(value), 0)
    /\ IsNum(existing)
    /\ Gt(existing.n, 0)

KeepExisting(key, existing, value) ==
    \/ KeepSubtaskName(key, existing, value)
    \/ KeepPercent(key, existing, value)
    \/ KeepRemainingTime(key, existing, value)

RECURSIVE deep_merge(_, _)
deep_merge(base, new) ==
    IF base.t = "obj" /\ new.t = "obj"
    THEN JObj([key \in DOMAIN base.m \cup DOMAIN new.m |->
                 IF key \notin DOMAIN new.m THEN base.m[key]
                 ELSE IF key \notin DOMAIN base.m THEN new.m[key]
                 ELSE IF KeepExisting(key, base.m[key], new.m[key]) THEN base.m[key]
                 ELSE deep_merge(base.m[key], new.m[key])])
    ELSE new

(***************************************************************************)
(* The status classifier: the closure handle_printer_message hands to      *)
(* update_printer_status.                                                  *)
(***************************************************************************)
Statuses == {"Idle", "Printing", "Paused", "Error", "Offline", "Connecting"}

\* printer.temperatures after the three `if let Some(..)` updates
Temper(old, print_data, key) ==
    IF IsNum(Get(print_data, key)) THEN RoundAsI32(Get(print_data, key).n) ELSE old

Temperatures(printer, print_data) ==
    [nozzle  |-> Temper(printer.temperatures.nozzle, print_data, "nozzle_temper"),
     bed     |-> Temper(printer.temperatures.bed, print_data, "bed_temper"),
     chamber |-> Temper(printer.temperatures.chamber, print_data, "chamber_temper")]

\* the extracted signals and the key indicators computed from them
Signals(print_data, temps) ==
    LET mc_remaining_time == NumOr0(Get(print_data, "mc_remaining_time"))
        mc_percent        == NumOr0(Get(print_data, "mc_percent"))
        layer_num         == NumOr0(Get(print_data, "layer_num"))
        stg_cur           == NumOr0(Get(print_data, "stg_cur"))
        fan_gear          == NumOr0(Get(print_data, "fan_gear"))
        subtask_name      == StrOrEmpty(Get(print_data, "subtask_name"))
    IN [gcode_state       |-> IF IsStr(Get(print_data, "gcode_state"))
                              THEN Get(print_data, "gcode_state") ELSE None,
        print_real        |-> NumOr0(Get(print_data, "print_real")),
        mc_remaining_time |-> mc_remaining_time,
        mc_percent        |-> mc_percent,
        layer_num         |-> layer_num,
        stg_cur           |-> stg_cur,
        print_error       |-> NumOr0(Get(print_data, "print_error")),
        fan_gear          |-> fan_gear,
        subtask_name      |-> subtask_name,
        nozzle            |-> temps.nozzle,
        has_active_job    |-> Gt(mc_remaining_time, 0)
                              \/ (Gt(layer_num, 0) /\ Lt(mc_percent, 100)),
        has_progress      |-> Gt(mc_percent, 0) /\ Lt(mc_percent, 100),
        has_job_name      |-> subtask_name \notin Sentinels,
        has_high_temps    |-> temps.nozzle > 150 \/ temps.bed > 40,
        has_active_fan    |-> Gt(fan_gear, 0),
        is_in_print_stage |-> Eq(stg_cur, 1) \/ Eq(stg_cur, 2) \/ Eq(stg_cur, 3)]

determine_status_from_indicators(s) ==
    IF s.has_active_job /\ (s.has_progress \/ s.is_in_print_stage) THEN "Printing"
    ELSE IF s.is_in_print_stage /\ Eq(s.stg_cur, 2) THEN "Paused"
    ELSE IF s.is_in_print_stage /\ Eq(s.stg_cur, 3) THEN "Error"
    ELSE IF s.has_high_temps /\ s.has_active_job /\ (s.has_active_fan \/ s.has_job_name)
         THEN "Printing"
    ELSE IF s.nozzle > 200 /\ s.has_active_fan /\ (s.has_job_name \/ s.has_progress)
         THEN "Printing"
    ELSE IF s.has_job_name /\ s.has_progress THEN "Printing"
    ELSE IF Gt(s.mc_remaining_time, 0) /\ Gt(s.layer_num, 0) THEN "Printing"
    ELSE IF s.has_high_temps /\ s.has_active_fan THEN "Printing"
    ELSE "Idle"

\* the `match gcode_state` table
GcodeStatus(s) ==
    LET g == s.gcode_state.s
    IN  IF g \in {"RUNNING", "PRINTING"} THEN "Printing"
        ELSE IF g \in {"PAUSE", "PAUSED"} THEN "Paused"
        ELSE IF g \in {"FAILED", "ERROR"} THEN "Error"
        ELSE IF g \in {"FINISH", "FINISHED"} THEN "Idle"
        ELSE IF g \in {"PREPARE", "WORKING", "SLICING", "PRINTING_MONITOR"} THEN "Printing"
        ELSE IF g = "IDLE"
             THEN IF s.has_active_job \/ s.has_progress
                     \/ (s.has_high_temps /\ s.has_active_fan)
                  THEN "Printing" ELSE "Idle"
        ELSE determine_status_from_indicators(s)

\* new_status: the primary status detection
NewStatus(s) ==
    IF Gt(s.print_error, 0) THEN "Error"
    ELSE IF Eq(s.print_real, 1) THEN "Printing"
    ELSE IF s.gcode_state # None THEN GcodeStatus(s)
    ELSE determine_status_from_indicators(s)

\* a guard that takes every report as evidence of completion
AlwaysComplete(s) == TRUE

has_completion_indicators(s) ==
    \/ Ge(s.mc_percent, 100)
    \/ (Eq(s.mc_remaining_time, 0) /\ Eq(s.layer_num, 0))
    \/ (~s.has_high_temps /\ ~s.has_active_fan /\ ~s.has_active_job)

\* a validation that lets every candidate through
AlwaysUpdate(previous_status, new_status, s) == TRUE

\* should_update_status: the transition validation
should_update_status(previous_status, new_status, s) ==
    IF previous_status = "Error" \/ new_status = "Error" THEN TRUE
    ELSE IF previous_status = "Offline" \/ new_status = "Offline" THEN TRUE
    ELSE IF previous_status = "Connecting" \/ new_status = "Connecting" THEN TRUE
    ELSE IF previous_status = "Idle" /\ new_status = "Printing"
         THEN s.has_active_job \/ s.has_progress \/ Eq(s.print_real, 1)
              \/ (s.has_high_temps /\ s.has_active_fan)
    ELSE IF previous_status = "Printing" /\ new_status = "Idle"
         THEN has_completion_indicators(s)
    ELSE TRUE

GuardedStatus(previous_status, s) ==
    IF should_update_status(previous_status, NewStatus(s), s)
    THEN NewStatus(s) ELSE previous_status

(***************************************************************************)
(* The PrintJob snapshot.                                                  *)
(***************************************************************************)
\* the four 16-bit limbs of an i64, least significant first
Limbs(n) == <<n.lo % 65536, (n.lo \div 65536) % 65536,
              n.hi % 65536, (n.hi \div 65536) % 65536>>
Signed32(h16, l16) == (IF h16 >= 32768 THEN h16 - 65536 ELSE h16) * 65536 + l16

\* mc_remaining_time * 60 on i64, as the wrapping product
Mul60(n) ==
    LET a  == Limbs(n)
        p1 == a[1] * 60
        p2 == a[2] * 60 + p1 \div 65536
        p3 == a[3] * 60 + p2 \div 65536
        p4 == a[4] * 60 + p3 \div 65536
    IN  Wide(Signed32(p4 % 65536, p3 % 65536), Signed32(p2 % 65536, p1 % 65536))

\* whether mc_remaining_time * 60 leaves the range of i64: the high half of
\* the product, hi * 60 plus the carry out of the low half, does not fit 32 bits
Mul60Overflows(n) ==
    LET a     == Limbs(n)
        carry == (a[2] * 60 + (a[1] * 60) \div 65536) \div 65536
    IN  IF n.hi > 35791394 \/ n.hi < -35791395 THEN TRUE
        ELSE IF n.hi = -35791395 THEN carry < 52
        ELSE n.hi * 60 > I32Max - carry

\* round(a / b) for a >= 0, b > 0, halves away from zero
RoundDiv(a, b) == (2 * a + b) \div (2 * b)

IsSmall(n) == n.hi = 0 /\ n.lo >= 0 /\ n.lo <= 1000000

\* (remaining_seconds as f64 / (1.0 - mc_percent / 100.0)).round() as i64, computed
\* on the exact quotient; called with mc_percent > 0 and mc_remaining_time > 0
EstimatedTotalTime(remaining_seconds, mc_percent) ==
    IF IsSmall(remaining_seconds) /\ IsSmall(mc_percent)
    THEN IF mc_percent.lo = 100 THEN Wide(I32Max, -1)
         ELSE IF mc_percent.lo < 100
              THEN I64(RoundDiv(remaining_seconds.lo * 100, 100 - mc_percent.lo))
              ELSE I64(-RoundDiv(remaining_seconds.lo * 100, mc_percent.lo - 100))
    ELSE [inexact |-> <<remaining_seconds, mc_percent>>]

\* best_progress without the final clamp
BestProgressUnclamped(mc_percent, layer_current, layer_total) ==
    IF Eq(mc_percent, 0) /\ layer_current > 0 /\ layer_total > 0
    THEN [num |-> layer_current, den |-> layer_total]
    ELSE IF Gt(mc_percent, 0) /\ Le(mc_percent, 100)
         THEN [num |-> mc_percent.lo, den |-> 100]
    ELSE [num |-> 0, den |-> 1]

\* best_progress, as the fraction num/den of 100 percent, after clamp(0.0, 100.0).
\* Source 3 (time-based) needs estimated_total_time, which is Some only when
\* mc_percent > 0, and is applied only when mc_percent == 0: it never contributes.
BestProgress(mc_percent, layer_current, layer_total) ==
    IF Eq(mc_percent, 0) /\ layer_current > 0 /\ layer_total > 0
    THEN IF layer_current >= layer_total THEN [num |-> 1, den |-> 1]
         ELSE [num |-> layer_current, den |-> layer_total]
    ELSE IF Gt(mc_percent, 0) /\ Le(mc_percent, 100)
         THEN [num |-> mc_percent.lo, den |-> 100]
    ELSE [num |-> 0, den |-> 1]

OptInt32(v) == IF IsNum(v) THEN AsI32(v.n) ELSE None
OptStr(v) == IF IsStr(v) THEN v.s ELSE None

\* the condition under which printer.print is rebuilt rather than cleared
HasPrintData(status, s) ==
    \/ status \in {"Printing", "Paused"}
    \/ Gt(s.mc_remaining_time, 0)
    \/ Gt(s.layer_num, 0)
    \/ Gt(s.mc_percent, 0)
    \/ Eq(s.print_real, 1)

PrintJob(print_data, s) ==
    LET layer_current == AsI32(s.layer_num)
        layer_total   == AsI32(NumOr0(Get(print_data, "total_layer_num")))
    IN [progress             |-> BestProgress(s.mc_percent, layer_current, layer_total),
        time_remaining       |-> Mul60(s.mc_remaining_time),
        estimated_total_time |-> IF Gt(s.mc_percent, 0) /\ Gt(s.mc_remaining_time, 0)
                                 THEN EstimatedTotalTime(Mul60(s.mc_remaining_time),
                                                         s.mc_percent)
                                 ELSE None,
        file_name            |-> IF s.subtask_name # "" /\ s.subtask_name # "undefined"
                                 THEN s.subtask_name ELSE "Unknown",
        print_type           |-> OptStr(Get(print_data, "print_type")),
        layer_current        |-> layer_current,
        layer_total          |-> layer_total,
        speed_level          |-> OptInt32(Get(print_data, "spd_lvl")),
        fan_speed            |-> OptInt32(Get(print_data, "fan_gear")),
        stage                |-> OptInt32(Get(print_data, "stg_cur")),
        lifecycle            |-> OptStr(Get(print_data, "lifecycle"))]

(***************************************************************************)
(* The PrinterError snapshot.                                              *)
(***************************************************************************)
get_error_message(print_error, error_code) ==
    IF error_code = 1203 THEN "Filament runout detected"
    ELSE IF error_code = 1204 THEN "Filament tangle detected"
    ELSE IF error_code = 1205 THEN "Nozzle clog detected"
    ELSE IF print_error = 1 THEN "Print error occurred"
    ELSE IF print_error = 2 THEN "Bed adhesion failure"
    ELSE IF print_error = 3 THEN "Temperature error"
    ELSE "Error: print_error=" \o ToString(print_error)
         \o ", error_code=" \o ToString(error_code)

\* the two codes of the `// Check for errors` block, each `as i32`
ErrorCodes(print_data) ==
    [print_error |-> AsI32(NumOr0(Get(print_data, "print_error"))),
     error_code  |-> AsI32(NumOr0(Get(print_data, "mc_print_error_code")))]

PrinterError(print_data) ==
    LET c == ErrorCodes(print_data)
    IN [print_error |-> c.print_error,
        error_code  |-> c.error_code,
        stage       |-> AsI32(NumOr0(Get(print_data, "stg_cur"))),
        lifecycle   |-> IF IsStr(Get(print_data, "lifecycle"))
                        THEN Get(print_data, "lifecycle").s ELSE "Unknown",
        gcode_state |-> IF IsStr(Get(print_data, "gcode_state"))
                        THEN Get(print_data, "gcode_state").s ELSE "Unknown",
        message     |-> get_error_message(c.print_error, c.error_code)]

HasError(print_data) ==
    ErrorCodes(print_data).print_error > 0 \/ ErrorCodes(print_data).error_code > 0

(***************************************************************************)
(* The whole update closure of handle_printer_message, applied to the      *)
(* printer entry under the write lock.                                     *)
(***************************************************************************)
ClassifyPrint(printer, print_data) ==
    LET temps  == Temperatures(printer, print_data)
        s      == Signals(print_data, temps)
        status == GuardedStatus(printer.status, s)
    IN [printer EXCEPT
          !.temperatures = temps,
          !.status = IF HasError(print_data) THEN "Error" ELSE status,
          !.print  = IF HasPrintData(status, s) THEN PrintJob(print_data, s) ELSE None,
          !.error  = IF HasError(print_data) THEN PrinterError(print_data) ELSE None]

\* the closure reaches `mc_remaining_time * 60` with a product outside i64
ClassifyOverflows(printer, persistent_state) ==
    LET print_data == Get(persistent_state, "print")
        temps      == Temperatures(printer, print_data)
        s          == Signals(print_data, temps)
    IN /\ print_data # None
       /\ HasPrintData(GuardedStatus(printer.status, s), s)
       /\ Mul60Overflows(s.mc_remaining_time)

\* what the closure has written when the multiplication panics (a build with
\* overflow checks): the temperatures and the status, nothing after them
PanickedUpdate(printer, persistent_state) ==
    LET print_data == Get(persistent_state, "print")
        temps      == Temperatures(printer, print_data)
    IN [printer EXCEPT !.temperatures = temps,
                       !.status = GuardedStatus(printer.status, Signals(print_data, temps))]

\* Utc::now() as a logical time: the entry's timestamp moves on by one
Now(printer) == printer.last_update + 1

\* an update that classifies whatever the accumulator holds for "p1"
TelemetryUpdateShared(printer, persistent_state) ==
    LET shared     == IF "p1" \in DOMAIN printer_mqtt_states
                      THEN printer_mqtt_states["p1"] ELSE JObj(<<>>)
        print_data == Get(shared, "print")
        p == IF print_data # None THEN ClassifyPrint(printer, print_data) ELSE printer
    IN [p EXCEPT !.last_update = Now(printer)]

TelemetryUpdate(printer, persistent_state) ==
    LET print_data == Get(persistent_state, "print")
        p == IF print_data # None THEN ClassifyPrint(printer, print_data) ELSE printer
    IN [p EXCEPT !.last_update = Now(printer)]

(***************************************************************************)
(* The service state after MqttService::new.                               *)
(***************************************************************************)
SerialOf(id) == "serial-" \o id

SupportedActions == {"pause", "resume", "stop", "get_status"}

\* HashMap::remove and HashMap::insert
\* a removal that leaves the entry in place
KeepEntry(map, id) == map
Remove(map, id) == [k \in DOMAIN map \ {id} |-> map[k]]
Insert(map, id, v) == [k \in DOMAIN map \cup {id} |-> IF k = id THEN v ELSE map[k]]

EmptyMap == [k \in {} |-> None]

IdleDispatcher == [pc |-> "recv", cmd |-> None, serial |-> "", client |-> 0]
NoEvents == [id \in Ids |-> [removed |-> 0, last |-> None]]

Init ==
    /\ printer_states = EmptyMap
    /\ printer_mqtt_states = EmptyMap
    /\ printer_connections = EmptyMap
    /\ command_queue = <<>>
    /\ dispatcher = IdleDispatcher
    /\ tasks = <<>>
    /\ caller = [pc |-> "idle", op |-> "none", id |-> "", action |-> "",
                 printer |-> None, registered |-> FALSE, removed_before |-> 0,
                 result |-> ""]
    /\ emitted = NoEvents
    /\ outcome = <<>>
    /\ msg_log = [id \in Ids |-> <<>>]
    /\ budget = MaxEvents

(***************************************************************************)
(* Events handed to the frontend.                                          *)
(***************************************************************************)
\* app_handle.emit("printer-update", &printer)
EmitUpdate(ev, printer) ==
    [ev EXCEPT ![printer.id].last = [kind |-> "printer-update", printer |-> printer]]

\* app_handle.emit("printer-removed", printer_id)
EmitRemoved(ev, id) ==
    [ev EXCEPT ![id] = [removed |-> @.removed + 1, last |-> [kind |-> "printer-removed"]]]

(***************************************************************************)
(* add_printer, remove_printer, send_command: the synchronous operations.  *)
(***************************************************************************)
NewPrinter(id) ==
    [id |-> id, serial |-> SerialOf(id), status |-> "Connecting", online |-> FALSE,
     connection_state |-> "connecting",
     temperatures |-> [nozzle |-> 0, bed |-> 0, chamber |-> 0],
     print |-> None, error |-> None, last_update |-> 0]

\* the state of a connection task before its first poll; `published` is what
\* its client has accepted for publishing
NewTask(id) ==
    [id |-> id, serial |-> SerialOf(id), pc |-> "poll", connected |-> FALSE,
     data |-> None, persistent_state |-> None, updated_printer |-> None,
     resume |-> "poll", published |-> <<>>]

\* add_printer up to the release of the write lock
AddPrinter(id) ==
    /\ caller.pc = "idle"
    /\ budget > 0
    /\ budget' = budget - 1
    /\ printer_states' = Insert(printer_states, id, NewPrinter(id))
    /\ caller' = [pc |-> "add_emit", op |-> "add", id |-> id, action |-> "",
                  printer |-> NewPrinter(id),
                  registered |-> id \in DOMAIN printer_states,
                  removed_before |-> emitted[id].removed, result |-> ""]
    /\ UNCHANGED <<printer_mqtt_states, printer_connections, command_queue, dispatcher,
                   tasks, emitted, outcome, msg_log>>

\* add_printer: emit the initial state, spawn the connection task, return Ok
AddPrinterEmit ==
    /\ caller.pc = "add_emit"
    /\ emitted' = EmitUpdate(emitted, caller.printer)
    /\ tasks' = Append(tasks, NewTask(caller.id))
    /\ caller' = [caller EXCEPT !.pc = "idle", !.printer = None, !.result = "Ok"]
    /\ UNCHANGED <<printer_states, printer_mqtt_states, printer_connections,
                   command_queue, dispatcher, outcome, msg_log, budget>>

\* remove_printer: states.remove(printer_id)
RemovePrinter(id) ==
    /\ caller.pc = "idle"
    /\ budget > 0
    /\ budget' = budget - 1
    /\ printer_states' = Remove(printer_states, id)
    /\ caller' = [pc |-> "remove_mqtt", op |-> "remove", id |-> id, action |-> "",
                  printer |-> None,
                  registered |-> id \in DOMAIN printer_states,
                  removed_before |-> emitted[id].removed, result |-> ""]
    /\ UNCHANGED <<printer_mqtt_states, printer_connections, command_queue, dispatcher,
                   tasks, emitted, outcome, msg_log>>

\* remove_printer: mqtt_states.remove(printer_id)
RemovePrinterMqtt ==
    /\ caller.pc = "remove_mqtt"
    /\ printer_mqtt_states' = Remove(printer_mqtt_states, caller.id)
    /\ caller' = [caller EXCEPT !.pc = "remove_conn"]
    /\ UNCHANGED <<printer_states, printer_connections, command_queue, dispatcher,
                   tasks, emitted, outcome, msg_log, budget>>

\* remove_printer: connections.remove(printer_id)
RemovePrinterConnection ==
    /\ caller.pc = "remove_conn"
    /\ printer_connections' = Remove(printer_connections, caller.id)
    /\ caller' = [caller EXCEPT !.pc = "remove_emit"]
    /\ UNCHANGED <<printer_states, printer_mqtt_states, command_queue, dispatcher,
                   tasks, emitted, outcome, msg_log, budget>>

\* remove_printer: emit the removal, return Ok
RemovePrinterEmit ==
    /\ caller.pc = "remove_emit"
    /\ emitted' = EmitRemoved(emitted, caller.id)
    /\ caller' = [caller EXCEPT !.pc = "idle", !.result = "Ok"]
    /\ UNCHANGED <<printer_states, printer_mqtt_states, printer_connections,
                   command_queue, dispatcher, tasks, outcome, msg_log, budget>>

\* what send_command does with a command: the unbounded send of
\* (printer_id, command), which cannot fail while the dispatcher holds the receiver
Enqueue(queue, cmd) == Append(queue, cmd)

SendCommand(id, action) ==
    /\ caller.pc = "idle"
    /\ budget > 0
    /\ budget' = budget - 1
    /\ command_queue' = Enqueue(command_queue,
                                [printer_id |-> id, action |-> action,
                                 n |-> Len(outcome) + 1])
    /\ outcome' = Append(outcome, [printer_id |-> id, action |-> action,
                                   status |-> "queued"])
    /\ caller' = [pc |-> "idle", op |-> "send", id |-> id, action |-> action,
                  printer |-> None,
                  registered |-> id \in DOMAIN printer_states,
                  removed_before |-> emitted[id].removed, result |-> "Ok"]
    /\ UNCHANGED <<printer_states, printer_mqtt_states, printer_connections, dispatcher,
                   tasks, emitted, msg_log>>

(***************************************************************************)
(* The command handler task spawned by MqttService::new.                   *)
(***************************************************************************)
\* a receiver that hands out the newest queued command
RecvNewest(queue) == queue[Len(queue)]

\* receiver.recv(): the oldest queued command
Recv(queue) == Head(queue)

\* a dispatcher that puts an unresolvable command back on the queue
RequeueCommand(queue, cmd) == Append(queue, cmd)

\* the `continue` of the dispatcher when the printer or its client is missing:
\* the command is gone
DropCommand(queue, cmd) == queue

DispatcherRecv ==
    /\ dispatcher.pc = "recv"
    /\ command_queue # <<>>
    /\ dispatcher' = [dispatcher EXCEPT !.pc = "resolve", !.cmd = Recv(command_queue)]
    /\ command_queue' = SelectSeq(command_queue, LAMBDA c : c # Recv(command_queue))
    /\ UNCHANGED <<printer_states, printer_mqtt_states, printer_connections, tasks,
                   caller, emitted, outcome, msg_log, budget>>

\* both read locks are held together: serial and client are read in one step
DispatcherResolve ==
    /\ dispatcher.pc = "resolve"
    /\ LET id == dispatcher.cmd.printer_id
       IN IF id \in DOMAIN printer_states /\ id \in DOMAIN printer_connections
          THEN /\ dispatcher' = [dispatcher EXCEPT
                                   !.pc = "send",
                                   !.serial = printer_states[id].serial,
                                   !.client = printer_connections[id]]
               /\ UNCHANGED <<command_queue, outcome>>
          ELSE /\ dispatcher' = IdleDispatcher
               /\ command_queue' = DropCommand(command_queue, dispatcher.cmd)
               /\ outcome' = [outcome EXCEPT ![dispatcher.cmd.n].status = "dropped"]
    /\ UNCHANGED <<printer_states, printer_mqtt_states, printer_connections, tasks,
                   caller, emitted, msg_log, budget>>

\* send_mqtt_command: the envelope's command name, or Err for any other action
send_mqtt_command(action) ==
    IF action \in SupportedActions
    THEN [ok |-> TRUE, command |-> action]
    ELSE [ok |-> FALSE, command |-> "Unsupported command: " \o action]

Publish(client, serial, command, n) ==
    [tasks EXCEPT ![client].published =
        Append(@, [topic |-> "device/" \o serial \o "/request",
                   command |-> command, n |-> n])]

\* send_mqtt_command and the logging of its result
DispatcherSend ==
    /\ dispatcher.pc = "send"
    /\ LET cmd == dispatcher.cmd
           res == send_mqtt_command(cmd.action)
       IN IF res.ok
          THEN /\ tasks' = Publish(dispatcher.client, dispatcher.serial, res.command, cmd.n)
               /\ outcome' = [outcome EXCEPT ![cmd.n].status = "published"]
          ELSE /\ outcome' = [outcome EXCEPT ![cmd.n].status = "unsupported"]
               /\ UNCHANGED tasks
    /\ dispatcher' = IdleDispatcher
    /\ UNCHANGED <<printer_states, printer_mqtt_states, printer_connections,
                   command_queue, caller, emitted, msg_log, budget>>

(***************************************************************************)
(* start_mqtt_connection_task: one task per add_printer call.              *)
(***************************************************************************)
TaskIds == 1..Len(tasks)

\* update_printer_status up to the release of the write lock: `updated` is the
\* closure applied to the entry, used only if the id is present; the clone is
\* kept for the emit
UpdatePrinterStatus(t, updated, resume, connected) ==
    LET id == tasks[t].id
    IN IF id \in DOMAIN printer_states
       THEN /\ printer_states' = [printer_states EXCEPT ![id] = updated]
            /\ tasks' = [tasks EXCEPT ![t].pc = "emit", ![t].resume = resume,
                                      ![t].connected = connected,
                                      ![t].updated_printer = updated]
       ELSE /\ UNCHANGED printer_states
            /\ tasks' = [tasks EXCEPT ![t].pc = resume, ![t].connected = connected,
                                      ![t].updated_printer = None]

\* update_printer_status: emit the clone taken under the lock
TaskEmit(t) ==
    /\ tasks[t].pc = "emit"
    /\ emitted' = EmitUpdate(emitted, tasks[t].updated_printer)
    /\ tasks' = [tasks EXCEPT ![t].pc = tasks[t].resume, ![t].updated_printer = None]
    /\ UNCHANGED <<printer_states, printer_mqtt_states, printer_connections,
                   command_queue, dispatcher, caller, outcome, msg_log, budget>>

\* poll() returns ConnAck: subscribe to the report topic, publish the status probe
TaskConnAck(t) ==
    /\ tasks[t].pc = "poll"
    /\ ~tasks[t].connected
    /\ budget > 0
    /\ budget' = budget - 1
    /\ tasks' = [Publish(t, tasks[t].serial, "get_status", 0)
                   EXCEPT ![t].connected = TRUE, ![t].pc = "connack_update"]
    /\ UNCHANGED <<printer_states, printer_mqtt_states, printer_connections,
                   command_queue, dispatcher, caller, emitted, outcome, msg_log>>

\* a handshake update that leaves the status of a working printer alone
ConnectedKeepStatus(printer) ==
    [printer EXCEPT !.online = TRUE,
                    !.status = IF @ \in {"Connecting", "Offline"} THEN "Idle" ELSE @,
                    !.connection_state = "connected", !.last_update = Now(printer)]

Connected(printer) ==
    [printer EXCEPT !.online = TRUE, !.status = "Idle",
                    !.connection_state = "connected", !.last_update = Now(printer)]

\* a transport-error update that forgets the online flag
FailedStillOnline(printer) ==
    [printer EXCEPT !.status = "Offline",
                    !.connection_state = "failed", !.last_update = Now(printer)]

Failed(printer) ==
    [printer EXCEPT !.online = FALSE, !.status = "Offline",
                    !.connection_state = "failed", !.last_update = Now(printer)]

\* ConnAck: update_printer_status(online, Idle, connected)
TaskConnAckUpdate(t) ==
    /\ tasks[t].pc = "connack_update"
    /\ UpdatePrinterStatus(t, Connected(printer_states[tasks[t].id]), "connack_pool", TRUE)
    /\ UNCHANGED <<printer_mqtt_states, printer_connections, command_queue, dispatcher,
                   caller, emitted, outcome, msg_log, budget>>

\* ConnAck: connections.insert(printer_id, client)
TaskConnAckPool(t) ==
    /\ tasks[t].pc = "connack_pool"
    /\ printer_connections' = Insert(printer_connections, tasks[t].id, t)
    /\ tasks' = [tasks EXCEPT ![t].pc = "poll"]
    /\ UNCHANGED <<printer_states, printer_mqtt_states, command_queue, dispatcher,
                   caller, emitted, outcome, msg_log, budget>>

\* the accumulated state handle_printer_message starts from
CurrentState(id) ==
    IF id \in DOMAIN printer_mqtt_states THEN printer_mqtt_states[id] ELSE EmptyObject

\* a merge into one accumulator shared by all registered printers
TaskMergeShared(t, data) ==
    /\ tasks[t].pc = "poll"
    /\ tasks[t].connected
    /\ budget > 0
    /\ budget' = budget - 1
    /\ LET merged_state == deep_merge(CurrentState(tasks[t].id), data)
       IN /\ printer_mqtt_states' =
                [id \in DOMAIN printer_states \cup DOMAIN printer_mqtt_states
                        \cup {tasks[t].id} |-> merged_state]
          /\ tasks' = [tasks EXCEPT ![t].pc = "classify", ![t].data = data,
                                    ![t].persistent_state = merged_state]
    /\ UNCHANGED <<printer_states, printer_connections, command_queue, dispatcher,
                   caller, emitted, outcome, msg_log>>

\* poll() returns a Publish whose payload parses to `data`: handle_printer_message
\* up to the release of the accumulator's write lock
TaskMerge(t, data) ==
    /\ tasks[t].pc = "poll"
    /\ tasks[t].connected
    /\ budget > 0
    /\ budget' = budget - 1
    /\ LET merged_state == deep_merge(CurrentState(tasks[t].id), data)
       IN /\ printer_mqtt_states' = Insert(printer_mqtt_states, tasks[t].id, merged_state)
          /\ tasks' = [tasks EXCEPT ![t].pc = "classify", ![t].data = data,
                                    ![t].persistent_state = merged_state]
    /\ UNCHANGED <<printer_states, printer_connections, command_queue, dispatcher,
                   caller, emitted, outcome, msg_log>>

\* handle_printer_message: update_printer_status with the classifier closure.
\* When `mc_remaining_time * 60` overflows, a build without overflow checks
\* wraps and goes on; a build with them panics inside the closure: the entry
\* keeps what was written so far, nothing is emitted and the task is gone.
TaskClassify(t) ==
    /\ tasks[t].pc = "classify"
    /\ LET id == tasks[t].id
           updated == TelemetryUpdate(printer_states[id], tasks[t].persistent_state)
       IN \/ /\ UpdatePrinterStatus(t, updated, "poll", tasks[t].connected)
             /\ IF id \in DOMAIN printer_states
                THEN msg_log' = [msg_log EXCEPT ![id] =
                                   Append(@, [data   |-> tasks[t].data,
                                              state  |-> tasks[t].persistent_state,
                                              before |-> printer_states[id],
                                              after  |-> updated])]
                ELSE UNCHANGED msg_log
          \/ /\ id \in DOMAIN printer_states
             /\ ClassifyOverflows(printer_states[id], tasks[t].persistent_state)
             /\ printer_states' =
                   [printer_states EXCEPT
                      ![id] = PanickedUpdate(@, tasks[t].persistent_state)]
             /\ tasks' = [tasks EXCEPT ![t].pc = "panicked"]
             /\ UNCHANGED msg_log
    /\ UNCHANGED <<printer_mqtt_states, printer_connections, command_queue, dispatcher,
                   caller, emitted, outcome, budget>>

\* a task that treats an unparsable payload as a failure of the connection
TaskParseErrorAsFailure(t) ==
    /\ tasks[t].pc = "poll"
    /\ tasks[t].connected
    /\ budget > 0
    /\ budget' = budget - 1
    /\ UpdatePrinterStatus(t, Failed(printer_states[tasks[t].id]), "sleep", FALSE)
    /\ UNCHANGED <<printer_mqtt_states, printer_connections, command_queue, dispatcher,
                   caller, emitted, outcome, msg_log>>

\* poll() returns a Publish whose payload is not JSON: logged, nothing else
TaskParseError(t) ==
    /\ tasks[t].pc = "poll"
    /\ tasks[t].connected
    /\ budget > 0
    /\ budget' = budget - 1
    /\ UNCHANGED <<printer_states, printer_mqtt_states, printer_connections,
                   command_queue, dispatcher, tasks, caller, emitted, outcome, msg_log>>

\* poll() returns Err: update_printer_status(offline, Offline, failed)
TaskTransportError(t) ==
    /\ tasks[t].pc = "poll"
    /\ budget > 0
    /\ budget' = budget - 1
    /\ UpdatePrinterStatus(t, Failed(printer_states[tasks[t].id]), "sleep", FALSE)
    /\ UNCHANGED <<printer_mqtt_states, printer_connections, command_queue, dispatcher,
                   caller, emitted, outcome, msg_log>>

\* a reconnect delay that ends with a status request, as periodic polling would
TaskSleepPolling(t) ==
    /\ tasks[t].pc = "sleep"
    /\ tasks' = [Publish(t, tasks[t].serial, "get_status", 0) EXCEPT ![t].pc = "poll"]
    /\ UNCHANGED <<printer_states, printer_mqtt_states, printer_connections,
                   command_queue, dispatcher, caller, emitted, outcome, msg_log, budget>>

\* tokio::time::sleep(5 s) returns; the loop polls again
TaskSleep(t) ==
    /\ tasks[t].pc = "sleep"
    /\ tasks' = [tasks EXCEPT ![t].pc = "poll"]
    /\ UNCHANGED <<printer_states, printer_mqtt_states, printer_connections,
                   command_queue, dispatcher, caller, emitted, outcome, msg_log, budget>>

(***************************************************************************)
(* Inbound payloads: what serde_json::from_slice yields for the reports    *)
(* the environment sends.                                                  *)
(***************************************************************************)
PrintMsg(fields) == JObj("print" :> JObj(fields))

PJob == PrintMsg("mc_percent" :> JInt(55) @@ "mc_remaining_time" :> JInt(120)
                 @@ "layer_num" :> JInt(10))
PZeroHot == PrintMsg("mc_percent" :> JInt(0) @@ "mc_remaining_time" :> JInt(0)
                     @@ "layer_num" :> JInt(0) @@ "fan_gear" :> JInt(5)
                     @@ "nozzle_temper" :> JInt(210))
PZeroCold == PrintMsg("mc_percent" :> JInt(0) @@ "mc_remaining_time" :> JInt(0)
                      @@ "layer_num" :> JInt(0) @@ "fan_gear" :> JInt(0)
                      @@ "nozzle_temper" :> JInt(20))
PErrorRunning == PrintMsg("print_error" :> JInt(2) @@ "gcode_state" :> JStr("RUNNING"))
PScalar == JInt(5)

\* reports of a single field
Single(key, value) == PrintMsg(key :> value)

ServicePayloads == {PJob, PErrorRunning}

TelemetryPayloads ==
    {PJob, PZeroHot, PZeroCold, PErrorRunning, EmptyObject, PScalar,
     Single("print_real", JInt(1)),
     Single("gcode_state", JStr("RUNNING")),
     Single("gcode_state", JStr("PAUSE")),
     Single("gcode_state", JStr("FINISH")),
     Single("gcode_state", JStr("FAILED")),
     Single("gcode_state", JStr("IDLE")),
     Single("print_error", JInt(0)),
     Single("print_error", JWide(1, 0)),
     Single("mc_print_error_code", JInt(1203)),
     Single("mc_percent", JInt(100)),
     Single("bed_temper", JInt(60)),
     Single("subtask_name", JStr("benchy.3mf"))}

CommandActions == {"pause", "get_status", "cancel"}

(***************************************************************************)
(* The service: registry operations, dispatcher and connection tasks.      *)
(***************************************************************************)
Next ==
    \/ \E id \in Ids : AddPrinter(id)
    \/ AddPrinterEmit
    \/ \E id \in Ids : RemovePrinter(id)
    \/ RemovePrinterMqtt
    \/ RemovePrinterConnection
    \/ RemovePrinterEmit
    \/ \E id \in Ids, action \in CommandActions : SendCommand(id, action)
    \/ DispatcherRecv
    \/ DispatcherResolve
    \/ DispatcherSend
    \/ \E t \in TaskIds : TaskConnAck(t)
    \/ \E t \in TaskIds : TaskConnAckUpdate(t)
    \/ \E t \in TaskIds : TaskConnAckPool(t)
    \/ \E t \in TaskIds, data \in ServicePayloads : TaskMerge(t, data)
    \/ \E t \in TaskIds : TaskClassify(t)
    \/ \E t \in TaskIds : TaskParseError(t)
    \/ \E t \in TaskIds : TaskTransportError(t)
    \/ \E t \in TaskIds : TaskSleep(t)
    \/ \E t \in TaskIds : TaskEmit(t)

Spec == Init /\ [][Next]_vars

(***************************************************************************)
(* One registered printer and its connection task, fed with reports: the   *)
(* state after add_printer("p1") has returned, and the task's steps.       *)
(***************************************************************************)
InitTelemetry ==
    /\ printer_states = Insert(EmptyMap, "p1", NewPrinter("p1"))
    /\ printer_mqtt_states = EmptyMap
    /\ printer_connections = EmptyMap
    /\ command_queue = <<>>
    /\ dispatcher = IdleDispatcher
    /\ tasks = <<NewTask("p1")>>
    /\ caller = [pc |-> "idle", op |-> "add", id |-> "p1", action |-> "",
                 printer |-> None, registered |-> FALSE, removed_before |-> 0,
                 result |-> "Ok"]
    /\ emitted = EmitUpdate(NoEvents, NewPrinter("p1"))
    /\ outcome = <<>>
    /\ msg_log = [id \in Ids |-> <<>>]
    /\ budget = MaxTelemetryEvents

NextTelemetry ==
    \/ TaskConnAck(1)
    \/ TaskConnAckUpdate(1)
    \/ TaskConnAckPool(1)
    \/ \E data \in TelemetryPayloads : TaskMerge(1, data)
    \/ TaskClassify(1)
    \/ TaskParseError(1)
    \/ TaskTransportError(1)
    \/ TaskSleep(1)
    \/ TaskEmit(1)

SpecTelemetry == InitTelemetry /\ [][NextTelemetry]_vars

(***************************************************************************)
(* One connected printer fed with reports that vary the progress fields:   *)
(* the state after add_printer("p1") and the handling of its ConnAck, and  *)
(* the task's handling of Publish packets.                                 *)
(***************************************************************************)
ProgressReport(percent, layer, total, remaining) ==
    PrintMsg("mc_percent" :> percent @@ "layer_num" :> layer
             @@ "total_layer_num" :> total @@ "mc_remaining_time" :> remaining)

ValuePayloads ==
    {ProgressReport(JInt(percent), JInt(layer), JInt(5), JInt(remaining)) :
        percent \in {-5, 0, 42, 100, 150}, layer \in {0, 3, 10}, remaining \in {0, 120}}
    \cup {ProgressReport(JInt(0), JInt(3), JInt(0), JInt(0)),
          ProgressReport(JInt(42), JInt(3), JInt(5), JWide(I32Max, -1)),
          ProgressReport(JInt(0), JWide(1, 3), JWide(1, 5), JInt(0))}

InitValues ==
    /\ printer_states = Insert(EmptyMap, "p1", Connected(NewPrinter("p1")))
    /\ printer_mqtt_states = EmptyMap
    /\ printer_connections = Insert(EmptyMap, "p1", 1)
    /\ command_queue = <<>>
    /\ dispatcher = IdleDispatcher
    /\ tasks = <<[NewTask("p1") EXCEPT
                    !.connected = TRUE,
                    !.published = <<[topic |-> "device/" \o SerialOf("p1") \o "/request",
                                     command |-> "get_status", n |-> 0]>>]>>
    /\ caller = [pc |-> "idle", op |-> "add", id |-> "p1", action |-> "",
                 printer |-> None, registered |-> FALSE, removed_before |-> 0,
                 result |-> "Ok"]
    /\ emitted = EmitUpdate(NoEvents, Connected(NewPrinter("p1")))
    /\ outcome = <<>>
    /\ msg_log = [id \in Ids |-> <<>>]
    /\ budget = MaxValueEvents

NextValues ==
    \/ \E data \in ValuePayloads : TaskMerge(1, data)
    \/ TaskClassify(1)
    \/ TaskEmit(1)

SpecValues == InitValues /\ [][NextValues]_vars

(***************************************************************************)
(* Two connected printers, each with its own connection task: the state    *)
(* after add_printer("p1") and add_printer("p2") and the handling of both  *)
(* ConnAcks, and the steps of the two tasks.                               *)
(***************************************************************************)
ConnectedTask(id) ==
    [NewTask(id) EXCEPT
        !.connected = TRUE,
        !.published = <<[topic |-> "device/" \o SerialOf(id) \o "/request",
                         command |-> "get_status", n |-> 0]>>]

PairPayloads == {PJob, PErrorRunning, PZeroHot}

InitPair ==
    /\ printer_states = [id \in Ids |-> Connected(NewPrinter(id))]
    /\ printer_mqtt_states = EmptyMap
    /\ printer_connections = ("p1" :> 1 @@ "p2" :> 2)
    /\ command_queue = <<>>
    /\ dispatcher = IdleDispatcher
    /\ tasks = <<ConnectedTask("p1"), ConnectedTask("p2")>>
    /\ caller = [pc |-> "idle", op |-> "add", id |-> "p2", action |-> "",
                 printer |-> None, registered |-> FALSE, removed_before |-> 0,
                 result |-> "Ok"]
    /\ emitted = [id \in Ids |->
                    [removed |-> 0,
                     last |-> [kind |-> "printer-update",
                               printer |-> Connected(NewPrinter(id))]]]
    /\ outcome = <<>>
    /\ msg_log = [id \in Ids |-> <<>>]
    /\ budget = MaxPairEvents

NextPair ==
    \/ \E t \in TaskIds : TaskConnAck(t)
    \/ \E t \in TaskIds : TaskConnAckUpdate(t)
    \/ \E t \in TaskIds : TaskConnAckPool(t)
    \/ \E t \in TaskIds, data \in PairPayloads : TaskMerge(t, data)
    \/ \E t \in TaskIds : TaskClassify(t)
    \/ \E t \in TaskIds : TaskParseError(t)
    \/ \E t \in TaskIds : TaskTransportError(t)
    \/ \E t \in TaskIds : TaskSleep(t)
    \/ \E t \in TaskIds : TaskEmit(t)

SpecPair == InitPair /\ [][NextPair]_vars

(***************************************************************************)
(* One printer registered twice: the state after add_printer("p1") has     *)
(* returned two times, which leaves one registry entry and two connection  *)
(* tasks for it, and the steps of the two tasks.                           *)
(***************************************************************************)
InitTwin ==
    /\ printer_states = Insert(EmptyMap, "p1", NewPrinter("p1"))
    /\ printer_mqtt_states = EmptyMap
    /\ printer_connections = EmptyMap
    /\ command_queue = <<>>
    /\ dispatcher = IdleDispatcher
    /\ tasks = <<NewTask("p1"), NewTask("p1")>>
    /\ caller = [pc |-> "idle", op |-> "add", id |-> "p1", action |-> "",
                 printer |-> None, registered |-> TRUE, removed_before |-> 0,
                 result |-> "Ok"]
    /\ emitted = EmitUpdate(NoEvents, NewPrinter("p1"))
    /\ outcome = <<>>
    /\ msg_log = [id \in Ids |-> <<>>]
    /\ budget = MaxTwinEvents

SpecTwin == InitTwin /\ [][NextPair]_vars

(***************************************************************************)
(* The connection loop of one registered printer whose broker sends no     *)
(* reports: handshakes, unparsable payloads and transport errors.  The     *)
(* runtime keeps scheduling the task, and the reconnect delay elapses.     *)
(***************************************************************************)
InitConnection ==
    /\ printer_states = Insert(EmptyMap, "p1", NewPrinter("p1"))
    /\ printer_mqtt_states = EmptyMap
    /\ printer_connections = EmptyMap
    /\ command_queue = <<>>
    /\ dispatcher = IdleDispatcher
    /\ tasks = <<NewTask("p1")>>
    /\ caller = [pc |-> "idle", op |-> "add", id |-> "p1", action |-> "",
                 printer |-> None, registered |-> FALSE, removed_before |-> 0,
                 result |-> "Ok"]
    /\ emitted = EmitUpdate(NoEvents, NewPrinter("p1"))
    /\ outcome = <<>>
    /\ msg_log = [id \in Ids |-> <<>>]
    /\ budget = MaxConnectionEvents

NextConnection ==
    \/ TaskConnAck(1)
    \/ TaskConnAckUpdate(1)
    \/ TaskConnAckPool(1)
    \/ TaskParseError(1)
    \/ TaskTransportError(1)
    \/ TaskSleep(1)
    \/ TaskEmit(1)

SpecConnection ==
    /\ InitConnection
    /\ [][NextConnection]_vars
    /\ WF_vars(TaskConnAckUpdate(1))
    /\ WF_vars(TaskConnAckPool(1))
    /\ WF_vars(TaskSleep(1))
    /\ WF_vars(TaskEmit(1))

(***************************************************************************)
(* One connected printer, Idle, that receives reports combining the        *)
(* signals of the status detection: gcode_state (absent, each class of the *)
(* table, IDLE, an unknown string), print_real, print_error, stg_cur and   *)
(* mc_percent.                                                             *)
(***************************************************************************)
GcodeStates == {"", "RUNNING", "PREPARE", "PAUSE", "FAILED", "FINISH", "IDLE", "OFFLINE"}

StatusReport(gcode_state, print_real, print_error, stg_cur, mc_percent) ==
    PrintMsg(("print_real" :> JInt(print_real) @@ "print_error" :> JInt(print_error)
              @@ "stg_cur" :> JInt(stg_cur) @@ "mc_percent" :> JInt(mc_percent))
             @@ (IF gcode_state = "" THEN [key \in {} |-> JNull]
                 ELSE "gcode_state" :> JStr(gcode_state)))

CandidatePayloads ==
    {StatusReport(g, flags[1], flags[2], stage, percent) :
        g \in GcodeStates, flags \in {<<0, 0>>, <<1, 0>>, <<0, 2>>, <<1, 2>>},
        stage \in {0, 2, 3}, percent \in {0, 42}}

InitCandidate ==
    /\ printer_states = Insert(EmptyMap, "p1", Connected(NewPrinter("p1")))
    /\ printer_mqtt_states = EmptyMap
    /\ printer_connections = Insert(EmptyMap, "p1", 1)
    /\ command_queue = <<>>
    /\ dispatcher = IdleDispatcher
    /\ tasks = <<ConnectedTask("p1")>>
    /\ caller = [pc |-> "idle", op |-> "add", id |-> "p1", action |-> "",
                 printer |-> None, registered |-> FALSE, removed_before |-> 0,
                 result |-> "Ok"]
    /\ emitted = EmitUpdate(NoEvents, Connected(NewPrinter("p1")))
    /\ outcome = <<>>
    /\ msg_log = [id \in Ids |-> <<>>]
    /\ budget = MaxCandidateEvents

NextCandidate ==
    \/ \E data \in CandidatePayloads : TaskMerge(1, data)
    \/ TaskClassify(1)
    \/ TaskEmit(1)

SpecCandidate == InitCandidate /\ [][NextCandidate]_vars

(***************************************************************************)
(* The locks.  The three maps are tokio RwLocks; a guard lives from its    *)
(* `.read().await` / `.write().await` to the end of its block, so the      *)
(* locks a process holds are a function of where it stands in its code.    *)
(* Each operation is the sequence of its lock operations and suspension    *)
(* points; a position [prog, at] says that the first `at` of them are      *)
(* done.  At the end of its sequence the dispatcher awaits recv(), a       *)
(* connection task awaits poll(), and a caller has returned.               *)
(***************************************************************************)
Acquire(lock, mode) == [op |-> "acquire", lock |-> lock, what |-> mode]
Release(lock) == [op |-> "release", lock |-> lock, what |-> ""]
Await(what) == [op |-> "await", lock |-> "", what |-> what]
Done == [op |-> "done", lock |-> "", what |-> ""]

\* the command handler spawned by MqttService::new: both guards are taken in
\* one block and dropped at its end, in reverse order of declaration
command_handler ==
    <<Acquire("printer_states", "read"), Acquire("printer_connections", "read"),
      Release("printer_connections"), Release("printer_states"),
      Await("publish")>>

\* the same block left by `continue`: printer or client not found
command_handler_continue ==
    <<Acquire("printer_states", "read"), Acquire("printer_connections", "read"),
      Release("printer_connections"), Release("printer_states")>>

update_printer_status ==
    <<Acquire("printer_states", "write"), Release("printer_states"), Await("emit")>>

add_printer ==
    <<Acquire("printer_states", "write"), Release("printer_states"), Await("emit")>>

\* a remove_printer that takes the pool first and keeps it while it takes
\* the registry
remove_printer_nested ==
    <<Acquire("printer_connections", "write"), Acquire("printer_states", "write"),
      Release("printer_states"), Release("printer_connections"),
      Acquire("printer_mqtt_states", "write"), Release("printer_mqtt_states"),
      Await("emit")>>

remove_printer ==
    <<Acquire("printer_states", "write"), Release("printer_states"),
      Acquire("printer_mqtt_states", "write"), Release("printer_mqtt_states"),
      Acquire("printer_connections", "write"), Release("printer_connections"),
      Await("emit")>>

get_all_printers ==
    <<Acquire("printer_states", "read"), Release("printer_states")>>

\* the ConnAck arm of the connection loop
conn_ack ==
    <<Await("subscribe"), Await("publish")>> \o update_printer_status
    \o <<Acquire("printer_connections", "write"), Release("printer_connections")>>

handle_printer_message ==
    <<Acquire("printer_mqtt_states", "write"), Release("printer_mqtt_states")>>
    \o update_printer_status

\* the Err arm of the connection loop
transport_error == update_printer_status \o <<Await("sleep")>>

DispatcherPrograms == {"command_handler", "command_handler_continue"}
CallerPrograms == {"add_printer", "remove_printer", "get_all_printers"}
TaskPrograms == {"conn_ack", "handle_printer_message", "transport_error"}

Program(name) ==
    CASE name = "command_handler" -> command_handler
      [] name = "command_handler_continue" -> command_handler_continue
      [] name = "add_printer" -> add_printer
      [] name = "remove_printer" -> remove_printer
      [] name = "get_all_printers" -> get_all_printers
      [] name = "conn_ack" -> conn_ack
      [] name = "handle_printer_message" -> handle_printer_message
      [] name = "transport_error" -> transport_error
      [] OTHER -> <<>>

\* a process between two operations: awaiting recv() or poll(), or returned
Between == [prog |-> "", at |-> 0]

Processes == {<<"dispatcher", 0>>, <<"caller", 0>>} \cup {<<"task", t>> : t \in TaskIds}

Position(p) ==
    IF p[1] = "dispatcher" THEN dispatcher.pc
    ELSE IF p[1] = "caller" THEN caller.pc
    ELSE tasks[p[2]].pc

NextInstruction(p) ==
    IF Position(p).at < Len(Program(Position(p).prog))
    THEN Program(Position(p).prog)[Position(p).at + 1]
    ELSE Done

\* the guard on `lock` is alive: acquired and not yet dropped
Holds(p, lock, mode) ==
    LET code == Program(Position(p).prog)
    IN \E i \in 1..Position(p).at :
          /\ code[i] = Acquire(lock, mode)
          /\ \A j \in (i + 1)..Position(p).at : code[j] # Release(lock)

Locks == {"printer_states", "printer_mqtt_states", "printer_connections"}

\* q keeps p from `lock`: q holds it in a conflicting mode, or (the lock is
\* fair, write-preferring) q is a writer in the queue and p wants to read
Blocks(q, p, lock, mode) ==
    /\ q # p
    /\ \/ Holds(q, lock, "write")
       \/ mode = "write" /\ Holds(q, lock, "read")
       \/ mode = "read" /\ NextInstruction(q) = Acquire(lock, "write")

\* p stands at an .await of a lock that q keeps from it
WaitsFor(p, q) ==
    /\ NextInstruction(p).op = "acquire"
    /\ Blocks(q, p, NextInstruction(p).lock, NextInstruction(p).what)

CanProceed(p) ==
    /\ NextInstruction(p).op # "done"
    /\ \A q \in Processes : ~WaitsFor(p, q)

Advance(pos) == [pos EXCEPT !.at = @ + 1]

InitLocks ==
    /\ printer_states = Insert(Insert(EmptyMap, "p1", NewPrinter("p1")), "p2", NewPrinter("p2"))
    /\ printer_mqtt_states = EmptyMap
    /\ printer_connections = EmptyMap
    /\ command_queue = <<>>
    /\ dispatcher = [IdleDispatcher EXCEPT !.pc = Between]
    /\ tasks = <<[NewTask("p1") EXCEPT !.pc = Between], [NewTask("p2") EXCEPT !.pc = Between]>>
    /\ caller = [pc |-> Between, op |-> "", id |-> "p1", action |-> "",
                 printer |-> None, registered |-> TRUE, removed_before |-> 0,
                 result |-> "Ok"]
    /\ emitted = NoEvents
    /\ outcome = <<>>
    /\ msg_log = [id \in Ids |-> <<>>]
    /\ budget = 0

\* recv() returns a command
DispatcherRecvCommand(prog) ==
    /\ NextInstruction(<<"dispatcher", 0>>) = Done
    /\ dispatcher' = [dispatcher EXCEPT !.pc = [prog |-> prog, at |-> 0]]
    /\ UNCHANGED <<printer_states, printer_mqtt_states, printer_connections,
                   command_queue, tasks, caller, emitted, outcome, msg_log, budget>>

DispatcherInstruction ==
    /\ CanProceed(<<"dispatcher", 0>>)
    /\ dispatcher' = [dispatcher EXCEPT !.pc = Advance(@)]
    /\ UNCHANGED <<printer_states, printer_mqtt_states, printer_connections,
                   command_queue, tasks, caller, emitted, outcome, msg_log, budget>>

\* a command of the application calls the service
CallerCall(prog) ==
    /\ NextInstruction(<<"caller", 0>>) = Done
    /\ caller' = [caller EXCEPT !.pc = [prog |-> prog, at |-> 0], !.op = prog]
    /\ UNCHANGED <<printer_states, printer_mqtt_states, printer_connections,
                   command_queue, dispatcher, tasks, emitted, outcome, msg_log, budget>>

CallerInstruction ==
    /\ CanProceed(<<"caller", 0>>)
    /\ caller' = [caller EXCEPT !.pc = Advance(@)]
    /\ UNCHANGED <<printer_states, printer_mqtt_states, printer_connections,
                   command_queue, dispatcher, tasks, emitted, outcome, msg_log, budget>>

\* poll() returns an event to connection task t
TaskPollReturns(t, prog) ==
    /\ NextInstruction(<<"task", t>>) = Done
    /\ tasks' = [tasks EXCEPT ![t].pc = [prog |-> prog, at |-> 0]]
    /\ UNCHANGED <<printer_states, printer_mqtt_states, printer_connections,
                   command_queue, dispatcher, caller, emitted, outcome, msg_log, budget>>

TaskInstruction(t) ==
    /\ CanProceed(<<"task", t>>)
    /\ tasks' = [tasks EXCEPT ![t].pc = Advance(@)]
    /\ UNCHANGED <<printer_states, printer_mqtt_states, printer_connections,
                   command_queue, dispatcher, caller, emitted, outcome, msg_log, budget>>

NextLocks ==
    \/ \E prog \in DispatcherPrograms : DispatcherRecvCommand(prog)
    \/ DispatcherInstruction
    \/ \E prog \in CallerPrograms : CallerCall(prog)
    \/ CallerInstruction
    \/ \E t \in TaskIds, prog \in TaskPrograms : TaskPollReturns(t, prog)
    \/ \E t \in TaskIds : TaskInstruction(t)

SpecLocks == InitLocks /\ [][NextLocks]_vars

(***************************************************************************)
(* Properties of the registry operations and the dispatcher, checked       *)
(* under Spec.                                                             *)
(***************************************************************************)
\* C1: send_command with an action outside {pause, resume, stop, home,
\* get_status} fails synchronously: the call returns Err and the command is
\* never accepted onto the dispatcher's queue.
C1_UnsupportedRejected ==
    LET supported == {"pause", "resume", "stop", "home", "get_status"}
    IN /\ (caller.op = "send" /\ caller.action \notin supported)
             => caller.result = "Err"
       /\ \A k \in 1..Len(outcome) : outcome[k].action \in supported
       /\ \A i \in 1..Len(command_queue) : command_queue[i].action \in supported

\* C2: when remove_printer(id) of a registered id has completed, id is absent
\* from the registry and that call has emitted exactly one printer-removed(id)
\* event, whatever the connection task did in between.
C2_RemoveCompletes ==
    (caller.op = "remove" /\ caller.registered /\ caller.pc = "idle") =>
        /\ caller.result = "Ok"
        /\ caller.id \notin DOMAIN printer_states
        /\ emitted[caller.id].removed = caller.removed_before + 1

\* a completed removal of a printer whose task had finished its handshake
C2_Witness ==
    /\ caller.op = "remove" /\ caller.registered /\ caller.pc = "idle"
    /\ \E t \in TaskIds : tasks[t].id = caller.id /\ tasks[t].published # <<>>

\* C3: every step of remove_printer(id) for an id that is not registered
\* leaves the registry, the accumulator and the session pool unchanged and
\* emits no printer-removed event.
C3_RemoveUnregisteredNoop ==
    [][(caller' # caller /\ caller'.op = "remove" /\ ~caller'.registered) =>
          /\ printer_states' = printer_states
          /\ printer_mqtt_states' = printer_mqtt_states
          /\ printer_connections' = printer_connections
          /\ emitted' = emitted]_vars

\* C4: outside a remove_printer call in progress, an id has an accumulated
\* telemetry entry or a pooled session only if it has a registry entry; so
\* after a completed removal none of the three maps holds the id again until
\* it is registered again.
C4_EntriesOnlyIfRegistered ==
    caller.pc \notin {"remove_mqtt", "remove_conn", "remove_emit"} =>
        (DOMAIN printer_mqtt_states \cup DOMAIN printer_connections)
            \subseteq DOMAIN printer_states

\* C5: commands are handed to the dispatcher in the order send_command
\* accepted them, and the dispatcher has published or dropped each command
\* before it starts on a later one, whichever printers they address.
C5_SubmissionOrder ==
    /\ \A k \in 1..Len(outcome) :
          outcome[k].status # "queued" =>
              \A j \in 1..(k - 1) : outcome[j].status # "queued"
    /\ dispatcher.pc # "recv" =>
          \A j \in 1..(dispatcher.cmd.n - 1) : outcome[j].status # "queued"
    /\ \A i \in 1..Len(command_queue) :
          /\ outcome[command_queue[i].n].status = "queued"
          /\ \A j \in 1..(i - 1) : command_queue[j].n < command_queue[i].n

\* two commands, both resolved and published
C5_Witness ==
    /\ Len(outcome) >= 2
    /\ outcome[1].status = "published"
    /\ outcome[2].status = "published"

\* C6: a command is published at most once; a command whose printer has no
\* registry entry or no pooled session when the dispatcher resolves it is
\* dropped, leaves the queue for good and is never published afterwards.
C6_AtMostOnce ==
    [][\A k \in 1..Len(outcome) :
          LET Copies(tt) ==
                  Cardinality({p \in UNION {{<<t, i>> : i \in 1..Len(tt[t].published)} :
                                               t \in 1..Len(tt)} :
                                  tt[p[1]].published[p[2]].n = k})
              Unresolvable ==
                  /\ dispatcher.pc = "resolve"
                  /\ dispatcher.cmd.n = k
                  /\ dispatcher' # dispatcher
                  /\ \/ outcome[k].printer_id \notin DOMAIN printer_states
                     \/ outcome[k].printer_id \notin DOMAIN printer_connections
          IN /\ Copies(tasks') <= 1
             /\ (outcome[k].status = "dropped" \/ Unresolvable) =>
                   /\ outcome'[k].status = "dropped"
                   /\ Copies(tasks') = 0
                   /\ \A i \in 1..Len(command_queue') : command_queue'[i].n # k]_vars

\* a dropped command whose printer has since got a registry entry and a
\* pooled session
C6_Witness ==
    \E k \in 1..Len(outcome) :
        /\ outcome[k].status = "dropped"
        /\ outcome[k].action \in SupportedActions
        /\ outcome[k].printer_id \in DOMAIN printer_states
        /\ outcome[k].printer_id \in DOMAIN printer_connections

(***************************************************************************)
(* Properties of merge and classification, checked under SpecTelemetry.    *)
(* msg_log[id][i] records the i-th report applied to the entry of id: the  *)
(* payload, the accumulated state after the merge, and the entry before    *)
(* and after the update.                                                   *)
(***************************************************************************)
\* C7: a report applied to an entry whose status is Printing never yields
\* Idle unless the accumulated state after the merge shows a completion signal
\* (percent >= 100; remaining time 0 and layer number 0; or none of high
\* temperature, active fan, active job).  In particular, from Printing with
\* {mc_percent 55, mc_remaining_time 120, layer_num 10}, the report
\* {mc_percent 0, mc_remaining_time 0, layer_num 0, fan_gear 5,
\* nozzle_temper 210} leaves the status Printing.
C7_HysteresisHold ==
    \A id \in Ids : \A i \in 1..Len(msg_log[id]) :
        LET e         == msg_log[id][i]
            prev      == msg_log[id][i - 1]
            print     == Get(e.state, "print")
            percent   == NumOr0(Get(print, "mc_percent"))
            remaining == NumOr0(Get(print, "mc_remaining_time"))
            layer     == NumOr0(Get(print, "layer_num"))
            hot       == e.after.temperatures.nozzle > 150
                         \/ e.after.temperatures.bed > 40
            fan       == Gt(NumOr0(Get(print, "fan_gear")), 0)
            job       == Gt(remaining, 0) \/ (Gt(layer, 0) /\ Lt(percent, 100))
            completed == \/ Ge(percent, 100)
                         \/ (Eq(remaining, 0) /\ Eq(layer, 0))
                         \/ (~hot /\ ~fan /\ ~job)
        IN /\ (e.before.status = "Printing" /\ e.after.status = "Idle") => completed
           /\ (/\ i > 1
               /\ prev.before.status = "Printing"
               /\ prev.data = PJob /\ prev.state = PJob
               /\ e.before = prev.after
               /\ e.data = PZeroHot) => e.after.status = "Printing"

\* the two reports of the hold scenario have been applied in a row
C7_Witness ==
    \E i \in 2..Len(msg_log["p1"]) :
        LET e    == msg_log["p1"][i]
            prev == msg_log["p1"][i - 1]
        IN /\ prev.before.status = "Printing"
           /\ prev.data = PJob /\ prev.state = PJob
           /\ e.before = prev.after
           /\ e.data = PZeroHot
           /\ e.after.status = "Printing"

\* C8: from Printing with {mc_percent 55, mc_remaining_time 120,
\* layer_num 10}, the report {mc_percent 0, mc_remaining_time 0, layer_num 0,
\* fan_gear 0, nozzle_temper 20}, processed through merge and classification,
\* ends with status Idle.
C8_HysteresisRelease ==
    \A id \in Ids : \A i \in 2..Len(msg_log[id]) :
        LET e    == msg_log[id][i]
            prev == msg_log[id][i - 1]
        IN (/\ prev.before.status = "Printing"
            /\ prev.data = PJob /\ prev.state = PJob
            /\ e.before = prev.after
            /\ e.data = PZeroCold) => e.after.status = "Idle"

\* C9: whenever the accumulated print_error is greater than 0 the update
\* ends with status Error, for every gcode_state, print_real and previous
\* status, and the entry carries a PrinterError whose message is the one the
\* lookup table gives; print_error 2 without a secondary code gives
\* "Bed adhesion failure".
C9_ErrorPrecedence ==
    \A id \in Ids : \A i \in 1..Len(msg_log[id]) :
        LET e           == msg_log[id][i]
            print       == Get(e.state, "print")
            print_error == NumOr0(Get(print, "print_error"))
            error_code  == NumOr0(Get(print, "mc_print_error_code"))
        IN Gt(print_error, 0) =>
              /\ e.after.status = "Error"
              /\ e.after.error # None
              /\ Eq(error_code, 1203) => e.after.error.message = "Filament runout detected"
              /\ (Eq(error_code, 0) /\ Eq(print_error, 1))
                    => e.after.error.message = "Print error occurred"
              /\ (Eq(error_code, 0) /\ Eq(print_error, 2))
                    => e.after.error.message = "Bed adhesion failure"
              /\ (Eq(error_code, 0) /\ Eq(print_error, 3))
                    => e.after.error.message = "Temperature error"

\* C10: merging the empty object into an accumulated state changes nothing:
\* deep_merge(T, {}) = T for every accumulated T the inbound payloads can
\* produce.
C10_MergeEmptyIdentity ==
    \A id \in DOMAIN printer_mqtt_states :
        deep_merge(printer_mqtt_states[id], EmptyObject) = printer_mqtt_states[id]

(***************************************************************************)
(* Properties of the progress fields, checked under SpecValues.            *)
(***************************************************************************)
\* C11: when a report's mc_percent is 0, the merge keeps the existing
\* mc_percent exactly when it is strictly between 0 and 100 and otherwise the
\* result is 0; a non-zero incoming mc_percent replaces the existing one.
C11_PercentRetention ==
    [][\A t \in TaskIds :
          (tasks[t].pc = "poll" /\ tasks'[t].pc = "classify"
           /\ tasks[t].id \in DOMAIN printer_mqtt_states) =>
              LET id       == tasks[t].id
                  existing == Get(Get(printer_mqtt_states[id], "print"), "mc_percent")
                  incoming == Get(Get(tasks'[t].data, "print"), "mc_percent")
                  merged   == Get(Get(printer_mqtt_states'[id], "print"), "mc_percent")
              IN (IsNum(existing) /\ IsNum(incoming)) =>
                    IF Eq(incoming.n, 0)
                    THEN IF Gt(existing.n, 0) /\ Lt(existing.n, 100)
                         THEN merged = existing
                         ELSE merged = JInt(0)
                    ELSE merged = incoming]_vars

\* a report with mc_percent 0 was merged into a state with mc_percent 42,
\* which the state kept
C11_Witness ==
    \E i \in 2..Len(msg_log["p1"]) :
        /\ Get(Get(msg_log["p1"][i - 1].state, "print"), "mc_percent") = JInt(42)
        /\ Get(Get(msg_log["p1"][i].data, "print"), "mc_percent") = JInt(0)
        /\ Get(Get(msg_log["p1"][i].state, "print"), "mc_percent") = JInt(42)

\* C12: whenever a registry entry carries a PrintJob, its progress lies in
\* [0, 100]: as a fraction num/den of 100 percent, 0 <= num <= den, whatever
\* mc_percent, layer_num, total_layer_num and mc_remaining_time the
\* accumulated state holds.
C12_ProgressInRange ==
    \A id \in DOMAIN printer_states :
        printer_states[id].print # None =>
            /\ printer_states[id].print.progress.den > 0
            /\ printer_states[id].print.progress.num >= 0
            /\ printer_states[id].print.progress.num <= printer_states[id].print.progress.den

\* a PrintJob built from mc_percent 0 and a layer number above the total
C12_Witness ==
    /\ "p1" \in DOMAIN printer_states
    /\ printer_states["p1"].print # None
    /\ printer_states["p1"].print.layer_current > printer_states["p1"].print.layer_total
    /\ printer_states["p1"].print.layer_total > 0
    /\ Eq(NumOr0(Get(Get(printer_mqtt_states["p1"], "print"), "mc_percent")), 0)

C14_HandshakeSuccess ==
    [][\A t \in TaskIds :
          /\ (/\ tasks[t].pc = "connack_update"
              /\ tasks'[t].pc # "connack_update"
              /\ tasks[t].id \in DOMAIN printer_states) =>
                 /\ tasks[t].id \in DOMAIN printer_states'
                 /\ printer_states'[tasks[t].id].online
                 /\ printer_states'[tasks[t].id].status = "Idle"
                 /\ printer_states'[tasks[t].id].connection_state = "connected"
          /\ (tasks[t].pc = "connack_pool" /\ tasks'[t].pc # "connack_pool") =>
                 /\ tasks[t].id \in DOMAIN printer_connections'
                 /\ printer_connections'[tasks[t].id] = t
                 /\ tasks'[t].pc = "poll"]_vars

\* task 2 has handled its ConnAck right after task 1's report had left the
\* entry in status Printing or Error
C14_Witness ==
    /\ Len(msg_log["p1"]) >= 1
    /\ msg_log["p1"][Len(msg_log["p1"])].after.status \in {"Printing", "Error"}
    /\ printer_states["p1"].last_update
          = msg_log["p1"][Len(msg_log["p1"])].after.last_update + 1
    /\ printer_states["p1"].status = "Idle"
    /\ printer_states["p1"].online
    /\ "p1" \in DOMAIN printer_connections
    /\ printer_connections["p1"] = 2
    /\ tasks[2].pc = "poll"

C16_ParseErrorNoChange ==
    [][TaskParseError(1) =>
          /\ printer_states' = printer_states
          /\ printer_mqtt_states' = printer_mqtt_states
          /\ printer_connections' = printer_connections
          /\ emitted' = emitted
          /\ msg_log' = msg_log
          /\ tasks'[1].pc = "poll"
          /\ tasks'[1].connected]_vars

\* an unparsable payload was handled (an event that left no update behind)
\* and a report was merged and classified on the same connection
C16_Witness ==
    /\ tasks[1].pc = "poll"
    /\ Len(tasks[1].published) = 1
    /\ Len(msg_log["p1"]) >= 1
    /\ printer_states["p1"].status # "Offline"
    /\ MaxTelemetryEvents - budget > printer_states["p1"].last_update
    /\ printer_states["p1"].last_update = msg_log["p1"][Len(msg_log["p1"])].after.last_update

(***************************************************************************)
(* Properties of the broadcasts and of the isolation between printers,     *)
(* checked under Spec.                                                     *)
(***************************************************************************)
\* C17: every step that inserts or changes a registry entry (add_printer, the
\* ConnAck update, the transport-error update, the telemetry update) leaves
\* its author about to emit one printer-update holding the entry exactly as
\* that step left it, and the author's next step emits exactly that snapshot.
\* (The telemetry update that stops at the product of C19 has changed the
\* entry and emits nothing: SpecValues.)
C17_SnapshotBroadcast ==
    [][/\ \A id \in DOMAIN printer_states' :
             (id \notin DOMAIN printer_states \/ printer_states'[id] # printer_states[id]) =>
                 \/ /\ caller.pc = "idle"
                    /\ caller'.pc = "add_emit"
                    /\ caller'.printer = printer_states'[id]
                 \/ \E t \in TaskIds :
                       /\ tasks[t].pc # "emit"
                       /\ tasks'[t].pc = "emit"
                       /\ tasks'[t].id = id
                       /\ tasks'[t].updated_printer = printer_states'[id]
       /\ \A t \in TaskIds :
             tasks[t].pc = "emit" =>
                 /\ tasks[t].updated_printer # None
                 /\ tasks'[t].pc # "emit" =>
                       /\ tasks'[t].pc = tasks[t].resume
                       /\ emitted'[tasks[t].id].last =
                             [kind |-> "printer-update", printer |-> tasks[t].updated_printer]
       /\ (caller.pc = "add_emit" /\ caller' # caller) =>
             emitted'[caller.id].last =
                 [kind |-> "printer-update", printer |-> caller.printer]]_vars

\* C18: a step of the connection task of one printer (a handshake, a report
\* of any kind, an unparsable payload, a transport error) leaves the registry
\* entry and the accumulated state of every other printer as they were.
C18_FailureIsolation ==
    [][\A t \in TaskIds :
          /\ tasks'[t] # tasks[t] =>
                \A b \in Ids \ {tasks[t].id} :
                    /\ (b \in DOMAIN printer_states') = (b \in DOMAIN printer_states)
                    /\ b \in DOMAIN printer_states =>
                          printer_states'[b] = printer_states[b]
                    /\ (b \in DOMAIN printer_mqtt_states') = (b \in DOMAIN printer_mqtt_states)
                    /\ b \in DOMAIN printer_mqtt_states =>
                          printer_mqtt_states'[b] = printer_mqtt_states[b]
          /\ TaskParseError(t) =>
                /\ printer_states' = printer_states
                /\ printer_mqtt_states' = printer_mqtt_states]_vars

\* both printers are registered; a report of p1 ended in status Error and
\* the entry of p2 is still the one add_printer stored
C18_Witness ==
    /\ Len(msg_log["p1"]) >= 1
    /\ msg_log["p1"][Len(msg_log["p1"])].after.status = "Error"
    /\ "p1" \in DOMAIN printer_states
    /\ "p2" \in DOMAIN printer_states
    /\ printer_states["p2"] = NewPrinter("p2")
    /\ "p2" \notin DOMAIN printer_mqtt_states

(***************************************************************************)
(* Properties of the arithmetic of the PrintJob, checked under SpecValues. *)
(***************************************************************************)
\* C19: classification is total: for every report, whatever 64-bit values
\* it carries, remaining_minutes * 60 and the computations built on it complete
\* without overflow, no update fails at run time, and the connection task
\* keeps running.
C19_ClassificationTotal ==
    /\ \A t \in TaskIds : tasks[t].pc # "panicked"
    /\ \A id \in Ids : \A i \in 1..Len(msg_log[id]) :
          msg_log[id][i].after.print # None =>
              ~Mul60Overflows(NumOr0(Get(Get(msg_log[id][i].state, "print"),
                                         "mc_remaining_time")))

(***************************************************************************)
(* Properties of the accumulated state at registration, checked under Spec.*)
(***************************************************************************)
\* C20: when add_printer returns, the accumulated telemetry of the id it
\* registered is empty (absent, or the empty object), also when the id was
\* registered before: the first report classified after the registration
\* merges into nothing observed before it.
C20_AddResetsAccumulator ==
    [][(caller.pc = "add_emit" /\ caller'.pc = "idle") =>
          \/ caller.id \notin DOMAIN printer_mqtt_states'
          \/ printer_mqtt_states'[caller.id] = EmptyObject]_vars

(***************************************************************************)
(* Properties of the error field, checked under SpecTelemetry.             *)
(***************************************************************************)
\* C21: in every reachable state a registered printer carries a PrinterError
\* exactly when its status is Error: an Error status always has one, and an
\* Idle, Offline, Printing, Paused or Connecting entry never has one.
C21_ErrorIffStatusError ==
    \A id \in DOMAIN printer_states :
        (printer_states[id].error # None) <=> (printer_states[id].status = "Error")

(***************************************************************************)
(* Properties of the connection tasks across add_printer and               *)
(* remove_printer, checked under Spec.                                     *)
(***************************************************************************)
\* C22: the connection task of a removed printer ends at its next transport
\* error: when poll() returns Err to a task whose printer is no longer
\* registered, the task does not go on to the reconnect delay and a new poll.
C22_RemovedTaskTerminates ==
    [][\A t \in TaskIds :
          (/\ tasks[t].pc = "poll"
           /\ tasks'[t].pc # "poll"
           /\ ~tasks'[t].connected
           /\ tasks[t].id \notin DOMAIN printer_states) =>
              tasks'[t].pc \notin {"sleep", "emit"}]_vars

\* C23: at any time at most one connection task works on a given printer id:
\* no two tasks with the same id hold an established session, on which each
\* would merge and classify the reports of that printer.
C23_OneTaskPerPrinter ==
    \A t1 \in TaskIds : \A t2 \in TaskIds :
        (/\ tasks[t1].id = tasks[t2].id
         /\ tasks[t1].connected
         /\ tasks[t2].connected) => t1 = t2

(***************************************************************************)
(* Properties of the transition guard and of the candidate status, checked *)
(* under SpecTelemetry on the log of applied reports.                      *)
(***************************************************************************)
\* the corroborating signals of the Idle -> Printing guard, read from the
\* accumulated print subtree and the temperatures of the updated entry
Corroborated(print, temperatures) ==
    LET percent   == NumOr0(Get(print, "mc_percent"))
        remaining == NumOr0(Get(print, "mc_remaining_time"))
        layer     == NumOr0(Get(print, "layer_num"))
    IN \/ Gt(remaining, 0) \/ (Gt(layer, 0) /\ Lt(percent, 100))
       \/ (Gt(percent, 0) /\ Lt(percent, 100))
       \/ Eq(NumOr0(Get(print, "print_real")), 1)
       \/ /\ (temperatures.nozzle > 150 \/ temperatures.bed > 40)
          /\ Gt(NumOr0(Get(print, "fan_gear")), 0)

\* C24: for an entry whose previous status is Idle, a telemetry update ends
\* with status Printing only if the accumulated state shows active-job,
\* progress, print_real == 1, or high-temp together with fan-active; a
\* candidate Printing without any of these leaves the status Idle.
C24_IdleToPrintingGuard ==
    \A id \in Ids : \A i \in 1..Len(msg_log[id]) :
        LET e     == msg_log[id][i]
            print == Get(e.state, "print")
        IN (e.before.status = "Idle" /\ print # None) =>
              /\ e.after.status = "Printing" => Corroborated(print, e.after.temperatures)
              /\ (/\ NewStatus(Signals(print, e.after.temperatures)) = "Printing"
                  /\ ~Corroborated(print, e.after.temperatures))
                     => e.after.status = "Idle"

\* C24 (amended): as C24, except that an uncorroborated candidate Printing
\* leaves the status Idle only when neither print_error nor
\* mc_print_error_code, each cast to 32 bits, is greater than 0; when one of
\* them is, the status is forced to Error.
C24_IdleToPrintingGuardAmended ==
    \A id \in Ids : \A i \in 1..Len(msg_log[id]) :
        LET e      == msg_log[id][i]
            print  == Get(e.state, "print")
            forced == \/ AsI32(NumOr0(Get(print, "print_error"))) > 0
                      \/ AsI32(NumOr0(Get(print, "mc_print_error_code"))) > 0
        IN (e.before.status = "Idle" /\ print # None) =>
              /\ e.after.status = "Printing" => Corroborated(print, e.after.temperatures)
              /\ (/\ NewStatus(Signals(print, e.after.temperatures)) = "Printing"
                  /\ ~Corroborated(print, e.after.temperatures))
                     => e.after.status = IF forced THEN "Error" ELSE "Idle"

\* an Idle entry has been held at Idle against an uncorroborated candidate
\* Printing, and an Idle entry has been forced to Error against one
C24_Witness ==
    /\ \E i \in 1..Len(msg_log["p1"]) :
          LET e == msg_log["p1"][i]
          IN /\ e.before.status = "Idle"
             /\ Get(e.state, "print") # None
             /\ NewStatus(Signals(Get(e.state, "print"), e.after.temperatures)) = "Printing"
             /\ ~Corroborated(Get(e.state, "print"), e.after.temperatures)
             /\ e.after.status = "Idle"
    /\ \E i \in 1..Len(msg_log["p1"]) :
          LET e == msg_log["p1"][i]
          IN /\ e.before.status = "Idle"
             /\ NewStatus(Signals(Get(e.state, "print"), e.after.temperatures)) = "Printing"
             /\ ~Corroborated(Get(e.state, "print"), e.after.temperatures)
             /\ e.after.status = "Error"

RECURSIVE KeyPathsKept(_, _)
KeyPathsKept(before, after) ==
    before.t = "obj" =>
        \A key \in DOMAIN before.m :
            /\ after.t = "obj"
            /\ key \in DOMAIN after.m
            /\ KeyPathsKept(before.m[key], after.m[key])

\* C26: the accumulated tree is never shrunk wholesale: whatever JSON value a
\* report parses to, every key path present in the printer's accumulated tree
\* before the merge is still present after it.
C26_NeverShrinks ==
    [][\A t \in TaskIds :
          (tasks[t].pc = "poll" /\ tasks'[t].pc = "classify"
           /\ tasks[t].id \in DOMAIN printer_mqtt_states) =>
              KeyPathsKept(printer_mqtt_states[tasks[t].id],
                           printer_mqtt_states'[tasks[t].id])]_vars

(***************************************************************************)
(* Properties of the locks, checked under SpecLocks.                       *)
(***************************************************************************)
\* C27: no process holds a lock on the registry, the accumulator or the pool
\* while it awaits a publish, a subscribe, a poll, the reconnect delay, a
\* queue receive or an event broadcast; no process waits for a lock while it
\* holds a write lock; and no set of processes waits for locks in a cycle.
C27_NoLockAcrossAwait ==
    /\ \A p \in Processes : \A lock \in Locks : \A mode \in {"read", "write"} :
          Holds(p, lock, mode) => NextInstruction(p).op \notin {"await", "done"}
    /\ \A p \in Processes : \A lock \in Locks :
          Holds(p, lock, "write") => NextInstruction(p).op # "acquire"
    /\ \A S \in SUBSET Processes :
          S # {} => \E p \in S : \A q \in S : ~WaitsFor(p, q)

\* the command handler holds the registry for reading and waits for the pool,
\* which remove_printer holds for writing while a connection task queues for
\* the registry
C27_Witness ==
    /\ Holds(<<"dispatcher", 0>>, "printer_states", "read")
    /\ WaitsFor(<<"dispatcher", 0>>, <<"caller", 0>>)
    /\ Holds(<<"caller", 0>>, "printer_connections", "write")
    /\ \E t \in TaskIds : WaitsFor(<<"task", t>>, <<"dispatcher", 0>>)

(***************************************************************************)
(* Properties of the candidate status, checked under SpecCandidate.  The   *)
(* candidate of a logged report is NewStatus on the signals of its         *)
(* accumulated print subtree.                                              *)
(***************************************************************************)
\* C28: the candidate status follows the first-match order for every
\* combination of signals: print_error > 0 gives Error; else print_real = 1
\* gives Printing, also with gcode_state PAUSE or FINISH; else a present
\* gcode_state maps by the table (RUNNING, PRINTING, PREPARE, WORKING,
\* SLICING, PRINTING_MONITOR to Printing; PAUSE, PAUSED to Paused; FAILED,
\* ERROR to Error; FINISH, FINISHED to Idle); a gcode_state outside the table,
\* or none, gives the result of the indicator bundle.
C28_CandidateOrder ==
    \A id \in Ids : \A i \in 1..Len(msg_log[id]) :
        LET e         == msg_log[id][i]
            print     == Get(e.state, "print")
            s         == Signals(print, e.after.temperatures)
            gcode     == Get(print, "gcode_state")
            candidate == NewStatus(s)
        IN print # None =>
              IF Gt(NumOr0(Get(print, "print_error")), 0) THEN candidate = "Error"
              ELSE IF Eq(NumOr0(Get(print, "print_real")), 1) THEN candidate = "Printing"
              ELSE IF ~IsStr(gcode) THEN candidate = determine_status_from_indicators(s)
              ELSE IF gcode.s \in {"RUNNING", "PRINTING", "PREPARE", "WORKING",
                                   "SLICING", "PRINTING_MONITOR"}
                   THEN candidate = "Printing"
              ELSE IF gcode.s \in {"PAUSE", "PAUSED"} THEN candidate = "Paused"
              ELSE IF gcode.s \in {"FAILED", "ERROR"} THEN candidate = "Error"
              ELSE IF gcode.s \in {"FINISH", "FINISHED"} THEN candidate = "Idle"
              ELSE candidate = determine_status_from_indicators(s)

\* C29: with gcode_state "IDLE", print_error <= 0 and print_real # 1, the
\* candidate status is Idle exactly when the indicator bundle on the same
\* signals yields Idle, and Printing whenever the bundle yields anything else
\* (its stage 2 and stage 3 rules included).
C29_IdleFollowsBundle ==
    \A id \in Ids : \A i \in 1..Len(msg_log[id]) :
        LET e      == msg_log[id][i]
            print  == Get(e.state, "print")
            s      == Signals(print, e.after.temperatures)
            bundle == determine_status_from_indicators(s)
        IN (/\ Get(print, "gcode_state") = JStr("IDLE")
            /\ ~Gt(NumOr0(Get(print, "print_error")), 0)
            /\ ~Eq(NumOr0(Get(print, "print_real")), 1)) =>
               /\ (NewStatus(s) = "Idle") <=> (bundle = "Idle")
               /\ bundle # "Idle" => NewStatus(s) = "Printing"

(***************************************************************************)
(* Properties of the PrintJob of the entry, checked under SpecValues.      *)
(***************************************************************************)
\* C30: after every telemetry update whose accumulated state has a print
\* subtree, the entry has a PrintJob exactly when the status chosen by the
\* guard is Printing or Paused or an active-job indicator holds (remaining
\* time > 0, layer_num > 0, percent > 0 or print_real = 1), a PrintJob that
\* was there before being cleared otherwise; and a PrintJob that is present
\* is the one built from the accumulated state alone.
C30_PrintJobPresence ==
    [][\A t \in TaskIds :
          (/\ tasks[t].pc = "classify"
           /\ tasks'[t].pc # "classify"
           /\ tasks[t].id \in DOMAIN printer_states
           /\ Get(tasks[t].persistent_state, "print") # None) =>
              LET before  == printer_states[tasks[t].id]
                  after   == printer_states'[tasks[t].id]
                  print   == Get(tasks[t].persistent_state, "print")
                  s       == Signals(print, after.temperatures)
                  present == \/ GuardedStatus(before.status, s) \in {"Printing", "Paused"}
                             \/ Gt(NumOr0(Get(print, "mc_remaining_time")), 0)
                             \/ Gt(NumOr0(Get(print, "layer_num")), 0)
                             \/ Gt(NumOr0(Get(print, "mc_percent")), 0)
                             \/ Eq(NumOr0(Get(print, "print_real")), 1)
              IN /\ (after.print # None) <=> present
                 /\ after.print # None => after.print = PrintJob(print, s)]_vars

(***************************************************************************)
(* Properties of the error rule, checked under SpecTelemetry.              *)
(***************************************************************************)
\* C31: after a telemetry update whose accumulated print subtree has
\* print_error > 0 or mc_print_error_code > 0, the status is Error and the
\* entry carries a PrinterError, whatever the classifier and the guard chose;
\* when neither is greater than 0 the entry carries no PrinterError.
C31_ErrorForced ==
    \A id \in Ids : \A i \in 1..Len(msg_log[id]) :
        LET e     == msg_log[id][i]
            print == Get(e.state, "print")
        IN print # None =>
              IF \/ Gt(NumOr0(Get(print, "print_error")), 0)
                 \/ Gt(NumOr0(Get(print, "mc_print_error_code")), 0)
              THEN e.after.status = "Error" /\ e.after.error # None
              ELSE e.after.error = None

(***************************************************************************)
(* The status probe.  One registered printer whose broker sends minimal    *)
(* reports (a push_status command, a wifi_signal update) and a full one,   *)
(* and whose connection fails and is set up again.                         *)
(***************************************************************************)
MaxProbeEvents == 4

\* handle_printer_message: the test for a report that carries little data
is_minimal_update(data) ==
    LET print      == Get(data, "print")
        print_keys == IF print.t = "obj" THEN DOMAIN print.m ELSE {}
    IN /\ Cardinality(print_keys) <= 3
       /\ \/ StrOrEmpty(Get(print, "command")) = "push_status"
          \/ Get(print, "wifi_signal") # None

PPushStatus == PrintMsg("command" :> JStr("push_status") @@ "msg" :> JInt(0))

PWifiSignal == Single("wifi_signal", JStr("-45dBm"))

ProbePayloads == {PPushStatus, PWifiSignal, PJob}

\* the status requests the task's client has accepted from the task itself
StatusRequests(t) ==
    Cardinality({i \in 1..Len(tasks[t].published) :
                    /\ tasks[t].published[i].command = "get_status"
                    /\ tasks[t].published[i].n = 0})

InitProbe ==
    /\ printer_states = Insert(EmptyMap, "p1", NewPrinter("p1"))
    /\ printer_mqtt_states = EmptyMap
    /\ printer_connections = EmptyMap
    /\ command_queue = <<>>
    /\ dispatcher = IdleDispatcher
    /\ tasks = <<NewTask("p1")>>
    /\ caller = [pc |-> "idle", op |-> "add", id |-> "p1", action |-> "",
                 printer |-> None, registered |-> FALSE, removed_before |-> 0,
                 result |-> "Ok"]
    /\ emitted = EmitUpdate(NoEvents, NewPrinter("p1"))
    /\ outcome = <<>>
    /\ msg_log = [id \in Ids |-> <<>>]
    /\ budget = MaxProbeEvents

NextProbe ==
    \/ TaskConnAck(1)
    \/ TaskConnAckUpdate(1)
    \/ TaskConnAckPool(1)
    \/ \E data \in ProbePayloads : TaskMerge(1, data)
    \/ TaskClassify(1)
    \/ TaskParseError(1)
    \/ TaskTransportError(1)
    \/ TaskSleep(1)
    \/ TaskEmit(1)

SpecProbe == InitProbe /\ [][NextProbe]_vars

\* C32: the connection task publishes one get_status request in the step
\* that handles a handshake success, and no other step of the task (a
\* report, minimal or not, an unparsable payload, a transport error, the end
\* of the reconnect delay, an emit) publishes one.
C32_ProbeOncePerHandshake ==
    [][\A t \in TaskIds :
          LET handshake == tasks[t].pc = "poll" /\ tasks'[t].pc = "connack_update"
          IN StatusRequests(t)' = StatusRequests(t) + (IF handshake THEN 1 ELSE 0)]_vars

\* two handshakes with a minimal report in between, and two probes
C32_Witness ==
    /\ StatusRequests(1) = 2
    /\ tasks[1].pc = "poll"
    /\ \E i \in 1..Len(msg_log["p1"]) : is_minimal_update(msg_log["p1"][i].data)

(***************************************************************************)
(* The connection lifecycle, checked under SpecConnection.                 *)
(***************************************************************************)
\* C33: the entry of a registered printer becomes connected (connection_state
\* "connected") only from Connecting (status Connecting, connection_state
\* "connecting"); in particular an entry that a transport error left Offline
\* and "failed" is shown as Connecting again before it is shown as connected.
C33_ConnectedOnlyFromConnecting ==
    [][\A id \in DOMAIN printer_states \cap DOMAIN printer_states' :
          (/\ printer_states[id].connection_state # "connected"
           /\ printer_states'[id].connection_state = "connected") =>
             /\ printer_states[id].status = "Connecting"
             /\ printer_states[id].connection_state = "connecting"]_vars

(***************************************************************************)
(* Removal against an update in progress, checked under Spec.              *)
(***************************************************************************)
\* C36: when the last event broadcast for an id is printer-removed, the next
\* printer-update for that id is broadcast only after the id was registered
\* again: add_printer has inserted the entry and has not yet emitted it (its
\* own emit, or an emit of a connection task after the insert).
C36_NoUpdateAfterRemoved ==
    [][\A id \in Ids :
          (/\ emitted[id].last = [kind |-> "printer-removed"]
           /\ emitted'[id].last # emitted[id].last
           /\ emitted'[id].removed = emitted[id].removed) =>
             caller.pc = "add_emit" /\ caller.id = id]_vars

(***************************************************************************)
(* The request channel of a session.  AsyncClient::new(mqtt_options, 10)   *)
(* gives the client a bounded channel to its event loop: subscribe() and   *)
(* publish() put one request on it and wait while it is full, and only the *)
(* owning task's poll() takes requests off it: one at a time while the     *)
(* session is connected, all of them when the connection is lost.  One     *)
(* registered printer, its connection task and the dispatcher: commands    *)
(* arrive, the connection fails a bounded number of times, and the printer *)
(* always answers the next connection attempt.                             *)
(***************************************************************************)
RequestChannelCapacity == 10

MaxChannelEvents == 11

MaxChannelErrors == 1

\* the transport errors so far: the events that were not commands
ChannelErrors == MaxChannelEvents - budget - Len(outcome)

\* a connection task together with the requests waiting in its client's channel
NewSession(id) == [requests |-> <<>>] @@ NewTask(id)

HasRoom(client) == Len(tasks[client].requests) < RequestChannelCapacity

\* the request is accepted by the channel
Request(tt, client, request) == [tt EXCEPT ![client].requests = Append(@, request)]

InitChannel ==
    /\ printer_states = Insert(EmptyMap, "p1", NewPrinter("p1"))
    /\ printer_mqtt_states = EmptyMap
    /\ printer_connections = EmptyMap
    /\ command_queue = <<>>
    /\ dispatcher = IdleDispatcher
    /\ tasks = <<NewSession("p1")>>
    /\ caller = [pc |-> "idle", op |-> "add", id |-> "p1", action |-> "",
                 printer |-> None, registered |-> FALSE, removed_before |-> 0,
                 result |-> "Ok"]
    /\ emitted = EmitUpdate(NoEvents, NewPrinter("p1"))
    /\ outcome = <<>>
    /\ msg_log = [id \in Ids |-> <<>>]
    /\ budget = MaxChannelEvents

\* send_mqtt_command: publish().await returns once the channel has taken the
\* request; an unsupported action returns Err before any publish
DispatcherSendAwait ==
    /\ dispatcher.pc = "send"
    /\ LET cmd == dispatcher.cmd
           res == send_mqtt_command(cmd.action)
       IN IF res.ok
          THEN /\ HasRoom(dispatcher.client)
               /\ tasks' = Request(Publish(dispatcher.client, dispatcher.serial,
                                           res.command, cmd.n),
                                   dispatcher.client, "publish")
               /\ outcome' = [outcome EXCEPT ![cmd.n].status = "published"]
          ELSE /\ outcome' = [outcome EXCEPT ![cmd.n].status = "unsupported"]
               /\ UNCHANGED tasks
    /\ dispatcher' = IdleDispatcher
    /\ UNCHANGED <<printer_states, printer_mqtt_states, printer_connections,
                   command_queue, caller, emitted, msg_log, budget>>

\* poll() of a disconnected session connects and returns ConnAck
TaskPollConnAck(t) ==
    /\ tasks[t].pc = "poll"
    /\ ~tasks[t].connected
    /\ tasks' = [tasks EXCEPT ![t].connected = TRUE, ![t].pc = "subscribe"]
    /\ UNCHANGED <<printer_states, printer_mqtt_states, printer_connections,
                   command_queue, dispatcher, caller, emitted, outcome, msg_log, budget>>

\* ConnAck: client.subscribe(status_topic).await
TaskSubscribe(t) ==
    /\ tasks[t].pc = "subscribe"
    /\ HasRoom(t)
    /\ tasks' = [Request(tasks, t, "subscribe") EXCEPT ![t].pc = "probe"]
    /\ UNCHANGED <<printer_states, printer_mqtt_states, printer_connections,
                   command_queue, dispatcher, caller, emitted, outcome, msg_log, budget>>

\* ConnAck: client.publish(request_topic, get_status).await
TaskProbe(t) ==
    /\ tasks[t].pc = "probe"
    /\ HasRoom(t)
    /\ tasks' = [Request(Publish(t, tasks[t].serial, "get_status", 0), t, "publish")
                   EXCEPT ![t].pc = "connack_update"]
    /\ UNCHANGED <<printer_states, printer_mqtt_states, printer_connections,
                   command_queue, dispatcher, caller, emitted, outcome, msg_log, budget>>

\* poll() of a connected session takes the oldest request off the channel and
\* returns the Outgoing event, which the loop ignores
TaskPollOutgoing(t) ==
    /\ tasks[t].pc = "poll"
    /\ tasks[t].connected
    /\ tasks[t].requests # <<>>
    /\ tasks' = [tasks EXCEPT ![t].requests = Tail(@)]
    /\ UNCHANGED <<printer_states, printer_mqtt_states, printer_connections,
                   command_queue, dispatcher, caller, emitted, outcome, msg_log, budget>>

\* poll() returns Err: the Err arm as in TaskTransportError; when the session
\* was connected the event loop also takes the waiting requests off the
\* channel, to send them on the next connection
TaskPollError(t) ==
    /\ tasks[t].pc = "poll"
    /\ ChannelErrors < MaxChannelErrors
    /\ budget > 0
    /\ budget' = budget - 1
    /\ LET id      == tasks[t].id
           waiting == IF tasks[t].connected THEN <<>> ELSE tasks[t].requests
       IN IF id \in DOMAIN printer_states
          THEN /\ printer_states' = [printer_states EXCEPT ![id] = Failed(@)]
               /\ tasks' = [tasks EXCEPT ![t].pc = "emit", ![t].resume = "sleep",
                                         ![t].connected = FALSE,
                                         ![t].updated_printer = Failed(printer_states[id]),
                                         ![t].requests = waiting]
          ELSE /\ UNCHANGED printer_states
               /\ tasks' = [tasks EXCEPT ![t].pc = "sleep", ![t].connected = FALSE,
                                         ![t].updated_printer = None,
                                         ![t].requests = waiting]
    /\ UNCHANGED <<printer_mqtt_states, printer_connections, command_queue, dispatcher,
                   caller, emitted, outcome, msg_log>>

NextChannel ==
    \/ SendCommand("p1", "pause")
    \/ DispatcherRecv
    \/ DispatcherResolve
    \/ DispatcherSendAwait
    \/ TaskPollConnAck(1)
    \/ TaskSubscribe(1)
    \/ TaskProbe(1)
    \/ TaskConnAckUpdate(1)
    \/ TaskConnAckPool(1)
    \/ TaskPollOutgoing(1)
    \/ TaskPollError(1)
    \/ TaskSleep(1)
    \/ TaskEmit(1)

\* the runtime keeps scheduling the dispatcher and the connection task, the
\* reconnect delay elapses, and the printer answers every connection attempt
SpecChannel ==
    /\ InitChannel
    /\ [][NextChannel]_vars
    /\ WF_vars(DispatcherRecv)
    /\ WF_vars(DispatcherResolve)
    /\ WF_vars(DispatcherSendAwait)
    /\ WF_vars(TaskPollConnAck(1))
    /\ WF_vars(TaskSubscribe(1))
    /\ WF_vars(TaskProbe(1))
    /\ WF_vars(TaskConnAckUpdate(1))
    /\ WF_vars(TaskConnAckPool(1))
    /\ WF_vars(TaskPollOutgoing(1))
    /\ WF_vars(TaskSleep(1))
    /\ WF_vars(TaskEmit(1))

\* C35: a connection task that has started to handle a handshake success
\* always gets through its subscribe, its probe publish and the LiveState
\* update and is back at its poll, whatever the dispatcher has put on the
\* session's request channel in the meantime.
C35_HandshakeCompletes ==
    (tasks[1].pc = "subscribe") ~> (tasks[1].pc = "poll")

\* C34: every command send_command has accepted is eventually resolved by
\* the dispatcher, published or dropped, also when the session's request
\* channel is full.
C34_DispatcherProgress ==
    \A k \in 1..MaxChannelEvents :
        (Len(outcome) >= k) ~> (Len(outcome) >= k /\ outcome[k].status # "queued")
====
